---- MODULE Spec2Model ----
(***************************************************************************)
(* A model of GiNaC's expression archive (ginac/archive.cpp), of the       *)
(* reference-counted expression handle `ex` and the generated containers   *)
(* (ginac/container.pl) and of the matrices (ginac/operators.h).           *)
(*                                                                         *)
(* Conventions.  C++ vectors are sequences; a C++ index or id i (0-based)  *)
(* is element i+1 of the sequence.  A std::string is the sequence of its   *)
(* character codes, so that writing and reading a string are real          *)
(* conversions.  An expression handle (ex) is the index of the node it     *)
(* points to in `heap` (pointer identity is equality of indices); 0 is     *)
(* "no node".                                                              *)
(***************************************************************************)
EXTENDS Integers, Sequences, FiniteSets, TLC

VARIABLES
    heap,        \* the expression nodes allocated so far (basic objects)
    nextSerial,  \* symbol::next_serial
    evalOrder,   \* the build's evaluation order of function arguments
    ars,         \* the archives: ars[1] is the one the user builds, ars[2] a second one
    stream,      \* the bytes of the stream last written or supplied
    phase,       \* where the user's program stands: "build", "direct" or "written"
    last,        \* the last operation: its arguments and what it returned or threw
    ghost,       \* history needed to state the claims (not program state)
    varint,      \* the unsigned ints written to the stream one by one, and those read back
    world,       \* the handles (ex) of the user's program and the nodes they point to
    terms,       \* the expressions x, y, z a program computes with operator+ and operator*
    mat,         \* the matrix a program holds and the last call of a member function on it
    tree         \* the nested lists and matrices a program holds and the last evaluation of them

\* The variables of the algebraic kernel; the archive and the handles leave them alone
kernel == <<terms, mat, tree>>

vars == <<heap, nextSerial, evalOrder, ars, stream, phase, last, ghost, varint, world, kernel>>

----------------------------------------------------------------------------
(* Bounds of the model *)

MaxHeap == 5      \* expression nodes in all (the user's and the unarchived)
MaxSerial == 5    \* the largest value symbol::next_serial takes
MaxExprs == 2     \* expressions archived into one archive

----------------------------------------------------------------------------
(* Strings *)

str_class == <<99, 108, 97, 115, 115>>
str_name == <<110, 97, 109, 101>>
str_serial == <<115, 101, 114, 105, 97, 108>>
str_seq == <<115, 101, 113>>
str_symbol == <<115, 121, 109, 98, 111, 108>>
str_lst == <<108, 115, 116>>
str_x == <<120>>
str_y == <<121>>
str_empty == <<>>

\* The symbols the user has declared: (name, serial).  Names are distinct.
Symbols == { [name |-> str_x, serial |-> 1], [name |-> str_y, serial |-> 2] }

\* Names under which expressions are archived and looked up.
ExprNames == { str_empty, str_x }

----------------------------------------------------------------------------
(* Expression nodes *)

symbol_node(name, serial) ==
    [kind |-> "symbol", name |-> name, serial |-> serial, seq |-> <<>>]

lst_node(children) ==
    [kind |-> "lst", name |-> <<>>, serial |-> 0, seq |-> children]

Min(S) == CHOOSE m \in S : \A k \in S : m <= k

\* TLC evaluates an operator's argument where the operator first uses it,
\* inside the operator.  done(v) has v evaluated on the spot, so that the
\* steps of a construction are evaluated one after the other, as the
\* statements of the code run, and not one inside the other.
done(v) == v = v

RECURSIVE is_equal(_, _, _)
\* ex::is_equal on the nodes a and b of heap h: the same node, or nodes of the
\* same class that are equal member by member (symbols by serial, lists child
\* by child).
is_equal(h, a, b) ==
    \/ a = b
    \/ /\ h[a].kind = h[b].kind
       /\ IF h[a].kind = "symbol"
          THEN h[a].serial = h[b].serial
          ELSE /\ Len(h[a].seq) = Len(h[b].seq)
               /\ \A i \in 1..Len(h[a].seq) : is_equal(h, h[a].seq[i], h[b].seq[i])

----------------------------------------------------------------------------
(* archive: atoms *)

PTYPE_BOOL == 0
PTYPE_UNSIGNED == 1
PTYPE_STRING == 2
PTYPE_NODE == 3

empty_archive == [atoms |-> <<>>, exprs |-> <<>>, nodes |-> <<>>]

property(name, type, value) == [type |-> type, name |-> name, value |-> value]

\* The search loop of archive::atomize: the id of the first atom equal to s,
\* or atoms.size() when there is none.
atomize_search(atoms, s) ==
    LET hits == { i \in 1..Len(atoms) : atoms[i] = s }
    IN  IF hits = {} THEN Len(atoms) ELSE Min(hits) - 1

\* archive::atomize: [id, ar], ar being the archive afterwards (atoms is
\* mutable: the const function appends a string it did not find).
atomize(ar, s) ==
    LET id == atomize_search(ar.atoms, s)
    IN  [id |-> id,
         ar |-> IF id = Len(ar.atoms) THEN [ar EXCEPT !.atoms = Append(@, s)] ELSE ar]

\* archive::unatomize: [exc, val]
unatomize(ar, id) ==
    IF id >= Len(ar.atoms)
    THEN [exc |-> "range_error", val |-> <<>>]
    ELSE [exc |-> "", val |-> ar.atoms[id + 1]]

----------------------------------------------------------------------------
(* archive: building nodes from expressions.  A node under construction is  *)
(* the pair st = [ar, n]: the archive (which the construction changes) and  *)
(* the archive_node.                                                       *)

add_bool(st, name, value) ==
    LET a == atomize(st.ar, name)
    IN  [ar |-> a.ar,
         n |-> [st.n EXCEPT !.props = Append(@, property(a.id, PTYPE_BOOL, IF value THEN 1 ELSE 0))]]

add_unsigned(st, name, value) ==
    LET a == atomize(st.ar, name)
    IN  [ar |-> a.ar,
         n |-> [st.n EXCEPT !.props = Append(@, property(a.id, PTYPE_UNSIGNED, value))]]

\* The two atomize calls are arguments of one constructor call: their order
\* is the build's choice.
add_string(st, name, value) ==
    LET first == IF evalOrder = "ltr" THEN name ELSE value
        second == IF evalOrder = "ltr" THEN value ELSE name
        a1 == atomize(st.ar, first)
        a2 == atomize(a1.ar, second)
        name_id == IF evalOrder = "ltr" THEN a1.id ELSE a2.id
        value_id == IF evalOrder = "ltr" THEN a2.id ELSE a1.id
    IN  CASE done(a1) ->
        [ar |-> a2.ar,
         n |-> [st.n EXCEPT !.props = Append(@, property(name_id, PTYPE_STRING, value_id))]]

has_same_ex_as(n, other) ==
    IF ~n.has_expression \/ ~other.has_expression
    THEN FALSE
    ELSE n.e = other.e

\* add_node without its search: every node is taken for a new one.
add_node_search_none(nodes, n) == Len(nodes)

\* The search loop of archive::add_node: the id of the first node that stores
\* the same expression as n, or nodes.size() when there is none.
add_node_search(nodes, n) ==
    LET hits == { i \in 1..Len(nodes) : has_same_ex_as(nodes[i], n) }
    IN  IF hits = {} THEN Len(nodes) ELSE Min(hits) - 1

\* archive::add_node: [id, ar]
add_node(ar, n) ==
    LET id == add_node_search(ar.nodes, n)
    IN  [id |-> id,
         ar |-> IF id = Len(ar.nodes) THEN [ar EXCEPT !.nodes = Append(@, n)] ELSE ar]

RECURSIVE archive_node_ctor(_, _)
RECURSIVE add_ex(_, _, _)
RECURSIVE lst_archive_seq(_, _, _)

\* basic::archive: every node records its class name.
basic_archive(st, e) ==
    add_string(st, str_class, IF heap[e].kind = "symbol" THEN str_symbol ELSE str_lst)

\* symbol::archive
symbol_archive(st, e) ==
    LET s1 == basic_archive(st, e)
        s2 == add_string(s1, str_name, heap[e].name)
    IN  CASE done(s1) /\ done(s2) -> add_unsigned(s2, str_serial, heap[e].serial)

\* lst::archive: one node property per child, in order, from child i on.
lst_archive_seq(st, e, i) ==
    IF i > Len(heap[e].seq)
    THEN st
    ELSE LET s1 == add_ex(st, str_seq, heap[e].seq[i])
         IN  CASE done(s1) -> lst_archive_seq(s1, e, i + 1)

lst_archive(st, e) ==
    LET s1 == basic_archive(st, e)
    IN  CASE done(s1) -> lst_archive_seq(s1, e, 1)

\* archive_node::archive_node(archive &, const ex &)
archive_node_ctor(ar, e) ==
    LET st == [ar |-> ar, n |-> [props |-> <<>>, has_expression |-> TRUE, e |-> e]]
    IN  IF heap[e].kind = "symbol" THEN symbol_archive(st, e) ELSE lst_archive(st, e)

\* add_ex with the id of a node yet to come in place of the child's
add_ex_forward(st, name, value) ==
    LET c == archive_node_ctor(st.ar, value)
        id == add_node(c.ar, c.n)
        a == atomize(id.ar, name)
    IN  CASE done(c) /\ done(id) ->
        [ar |-> a.ar,
         n |-> [st.n EXCEPT !.props = Append(@, property(a.id, PTYPE_NODE,
                                                       id.id + Len(id.ar.nodes)))]]

\* archive_node::add_ex
add_ex(st, name, value) ==
    LET c == archive_node_ctor(st.ar, value)
        id == add_node(c.ar, c.n)
        a == atomize(id.ar, name)
    IN  CASE done(c) /\ done(id) ->
        [ar |-> a.ar,
         n |-> [st.n EXCEPT !.props = Append(@, property(a.id, PTYPE_NODE, id.id))]]

\* archive::archive_ex: the archive afterwards
archive_ex(ar, e, name) ==
    LET c == archive_node_ctor(ar, e)
        id == add_node(c.ar, c.n)
        a == atomize(id.ar, name)
    IN  CASE done(c) /\ done(id) ->
        [a.ar EXCEPT !.exprs = Append(@, [name |-> a.id, root |-> id.id])]

----------------------------------------------------------------------------
(* archive: the binary stream.  A stream is a sequence of bytes (0..255);   *)
(* a reader is at position pos (the next byte is s[pos]).                  *)

ARCHIVE_VERSION == 2
ARCHIVE_AGE == 1

RECURSIVE Pow2(_)
\* 2^n, by squaring
Pow2(n) ==
    IF n = 0 THEN 1
    ELSE IF n % 2 = 1 THEN 2 * Pow2(n - 1)
    ELSE LET h == Pow2(n \div 2) IN h * h

RECURSIVE BitOrW(_, _, _)
\* a | b for a and b of w bits: the lower and the upper half of the bits
BitOrW(a, b, w) ==
    IF a = 0 THEN b
    ELSE IF b = 0 THEN a
    ELSE IF w = 1 THEN 1
    ELSE LET m == Pow2(w \div 2)
         IN  BitOrW(a % m, b % m, w \div 2) + m * BitOrW(a \div m, b \div m, w - w \div 2)

\* a | b for a and b of at most 16 bits
BitOr(a, b) == BitOrW(a, b, 16)

\* An unsigned int (32 bits) is the pair of its 16-bit halves [hi, lo].
\* W(n) is the unsigned int of the number n, N(w) the number of w.
Half == 65536

W(n) == [hi |-> (n \div Half) % Half, lo |-> n % Half]

N(w) == w.hi * Half + w.lo

\* val >= 0x80
Wge128(w) == w.hi > 0 \/ w.lo >= 128

\* val >> 7
Wshr7(w) == [hi |-> w.hi \div 128, lo |-> (w.lo \div 128) + (w.hi % 128) * 512]

\* a | b
Wor(a, b) == [hi |-> BitOr(a.hi, b.hi), lo |-> BitOr(a.lo, b.lo)]

\* a < b
Wlt(a, b) == a.hi < b.hi \/ (a.hi = b.hi /\ a.lo < b.lo)

\* c << shift in 32 bits, for a c of 7 bits
Wshl(c, shift) ==
    IF shift < 16
    THEN W(c * Pow2(shift))
    ELSE [hi |-> (c * Pow2(shift - 16)) % Half, lo |-> 0]

\* whether c << shift loses bits of c
Wshl_lost(c, shift) == shift >= 32 \/ (shift >= 16 /\ c * Pow2(shift - 16) >= Half)

RECURSIVE write_unsigned(_)
\* write_unsigned with the last group followed by a padding group
write_unsigned_padded(val) ==
    IF Wge128(val)
    THEN <<BitOr(val.lo % 128, 128)>> \o write_unsigned(Wshr7(val))
    ELSE <<BitOr(val.lo, 128), 0>>

\* write_unsigned: the bytes put on the stream for the unsigned int val
write_unsigned(val) ==
    IF Wge128(val)
    THEN <<BitOr(val.lo % 128, 128)>> \o write_unsigned(Wshr7(val))
    ELSE <<val.lo>>

\* A reader is r = [pos, good]: the next byte is s[pos], and good is the
\* stream's state (a read that finds no byte clears it, and every later read
\* fails).
reader == [pos |-> 1, good |-> TRUE]

avail(s, r) == r.good /\ r.pos <= Len(s)

\* istream::get(char &): [c, r].  A get that fails leaves c as it was; every
\* caller passes an uninitialised char, whose value is indeterminate (junk).
get(s, r, junk) ==
    IF avail(s, r)
    THEN [c |-> s[r.pos], r |-> [r EXCEPT !.pos = @ + 1]]
    ELSE [c |-> junk, r |-> [r EXCEPT !.good = FALSE]]

\* One pass of the loop of read_unsigned, with ret and shift as they stand.
\* The result is [val, r, status]: status is "hang" when the loop cannot end
\* (no byte is left and the indeterminate byte has its upper bit set) and
\* "ub" when a byte is shifted out of the 32 bits.
RECURSIVE read_unsigned_loop(_, _, _, _, _)
read_unsigned_loop(s, r, junk, ret, shift) ==
    LET test(g, ret2) ==
            IF Wshl_lost(g.c % 128, shift)
            THEN [val |-> ret2, r |-> g.r, status |-> "ub"]
            ELSE IF g.c >= 128
            THEN IF avail(s, r)
                 THEN CASE done(ret2) -> read_unsigned_loop(s, g.r, junk, ret2, shift + 7)
                 ELSE [val |-> ret2, r |-> g.r, status |-> "hang"]
            ELSE [val |-> ret2, r |-> g.r, status |-> "ok"]
        body(g) == test(g, Wor(ret, Wshl(g.c % 128, shift)))
    IN  body(get(s, r, junk))

\* read_unsigned with the first byte taken for the second group
read_unsigned_shifted(s, r, junk) == read_unsigned_loop(s, r, junk, W(0), 7)

\* read_unsigned: [val, r, status], val an unsigned int
read_unsigned(s, r, junk) == read_unsigned_loop(s, r, junk, W(0), 0)

RECURSIVE write_props(_, _)
\* the loop of operator<<(ostream, archive_node) from property i on
write_props(props, i) ==
    IF i > Len(props)
    THEN <<>>
    ELSE write_unsigned(W(BitOr(props[i].type, props[i].name * 8)))
         \o write_unsigned(W(props[i].value))
         \o write_props(props, i + 1)

\* operator<<(ostream, archive_node)
write_node(n) == write_unsigned(W(Len(n.props))) \o write_props(n.props, 1)

RECURSIVE write_atoms(_, _)
write_atoms(atoms, i) ==
    IF i > Len(atoms) THEN <<>> ELSE atoms[i] \o <<0>> \o write_atoms(atoms, i + 1)

RECURSIVE write_exprs_root_first(_, _)
\* The expression table written with the two fields of an entry exchanged.
write_exprs_root_first(exprs, i) ==
    IF i > Len(exprs)
    THEN <<>>
    ELSE write_unsigned(W(exprs[i].root)) \o write_unsigned(W(exprs[i].name))
         \o write_exprs_root_first(exprs, i + 1)

RECURSIVE write_exprs(_, _)
\* the loop over the expression table of operator<<(ostream, archive)
write_exprs(exprs, i) ==
    IF i > Len(exprs)
    THEN <<>>
    ELSE write_unsigned(W(exprs[i].name)) \o write_unsigned(W(exprs[i].root))
         \o write_exprs(exprs, i + 1)

RECURSIVE write_nodes(_, _)
write_nodes(nodes, i) ==
    IF i > Len(nodes) THEN <<>> ELSE write_node(nodes[i]) \o write_nodes(nodes, i + 1)

Signature == <<71, 65, 82, 67>>

\* operator<<(ostream, archive), after the header: the three tables
write_tables(ar) ==
    write_unsigned(W(Len(ar.atoms))) \o write_atoms(ar.atoms, 1)
    \o write_unsigned(W(Len(ar.exprs))) \o write_exprs(ar.exprs, 1)
    \o write_unsigned(W(Len(ar.nodes))) \o write_nodes(ar.nodes, 1)

\* operator<<(ostream, archive)
write_archive(ar) ==
    Signature \o write_unsigned(W(ARCHIVE_VERSION)) \o write_tables(ar)

\* vector::resize(k, fill)
resize(v, k, fill) == [i \in 1..k |-> IF i <= Len(v) THEN v[i] ELSE fill]

RECURSIVE getline_end(_, _)
\* Where getline stops extracting: the place of the first delimiter of s from
\* place j on, Len(s) + 1 when the stream ends before one.
getline_end(s, j) == IF j > Len(s) \/ s[j] = 0 THEN j ELSE getline_end(s, j + 1)

\* getline(is, str, '\0'): [val, r].  On a stream that is not good nothing
\* is extracted and str stays as it was; otherwise str is erased and filled
\* up to the delimiter or the end of the stream.
getline(s, r, str) ==
    LET extracted(end) ==
            IF end > Len(s)
            THEN [val |-> SubSeq(s, r.pos, Len(s)),
                  r |-> [pos |-> Len(s) + 1, good |-> FALSE]]
            ELSE [val |-> SubSeq(s, r.pos, end - 1),
                  r |-> [r EXCEPT !.pos = end + 1]]
    IN  IF ~r.good
        THEN [val |-> str, r |-> r]
        ELSE extracted(getline_end(s, r.pos))

\* The loops of the readers carry p = [r, status, v]: the reader, "ok" or how
\* a read_unsigned failed to return, and the vector being filled.

RECURSIVE read_props(_, _, _, _)
\* the loop of operator>>(istream, archive_node) from property i on
read_props(s, junk, p, i) ==
    LET value(nt, vl) ==
            IF vl.status # "ok"
            THEN [p EXCEPT !.status = vl.status]
            ELSE read_props(s, junk,
                     [r |-> vl.r, status |-> "ok",
                      v |-> [p.v EXCEPT ![i] = property(N(nt.val) \div 8, N(nt.val) % 8,
                                                        N(vl.val))]],
                     i + 1)
        name_type(nt) ==
            IF nt.status # "ok"
            THEN [p EXCEPT !.status = nt.status]
            ELSE value(nt, read_unsigned(s, nt.r, junk))
    IN  IF i > Len(p.v) \/ p.status # "ok"
        THEN p
        ELSE name_type(read_unsigned(s, p.r, junk))

\* operator>>(istream, archive_node): [r, status, v], v being the node
read_node(s, junk, r, n) ==
    LET filled(p) == [r |-> p.r, status |-> p.status, v |-> [n EXCEPT !.props = p.v]]
        num_props(np) ==
            IF np.status # "ok"
            THEN [r |-> np.r, status |-> np.status, v |-> n]
            ELSE filled(read_props(s, junk,
                            [r |-> np.r, status |-> "ok",
                             v |-> resize(n.props, N(np.val), property(0, 0, 0))], 1))
    IN  num_props(read_unsigned(s, r, junk))

RECURSIVE read_atoms(_, _, _, _)
read_atoms(s, junk, p, i) ==
    IF i > Len(p.v)
    THEN p
    ELSE LET g == getline(s, p.r, p.v[i])
         IN  read_atoms(s, junk, [p EXCEPT !.r = g.r, !.v[i] = g.val], i + 1)

RECURSIVE read_exprs(_, _, _, _)
read_exprs(s, junk, p, i) ==
    LET root_id(name, root) ==
            IF root.status # "ok"
            THEN [p EXCEPT !.status = root.status]
            ELSE read_exprs(s, junk,
                     [r |-> root.r, status |-> "ok",
                      v |-> [p.v EXCEPT ![i] = [name |-> N(name.val), root |-> N(root.val)]]],
                     i + 1)
        name_id(name) ==
            IF name.status # "ok"
            THEN [p EXCEPT !.status = name.status]
            ELSE root_id(name, read_unsigned(s, name.r, junk))
    IN  IF i > Len(p.v) \/ p.status # "ok"
        THEN p
        ELSE name_id(read_unsigned(s, p.r, junk))

RECURSIVE read_nodes(_, _, _, _)
read_nodes(s, junk, p, i) ==
    LET next(n) ==
            read_nodes(s, junk, [r |-> n.r, status |-> n.status, v |-> [p.v EXCEPT ![i] = n.v]],
                       i + 1)
    IN  IF i > Len(p.v) \/ p.status # "ok"
        THEN p
        ELSE next(read_node(s, junk, p.r, p.v[i]))

\* The header check without the upper end of the version window.
read_header_no_upper(s, junk) ==
    LET c1 == get(s, reader, junk)
        c2 == get(s, c1.r, junk)
        c3 == get(s, c2.r, junk)
        c4 == get(s, c3.r, junk)
        check(version) ==
            IF c1.c # 71 \/ c2.c # 65 \/ c3.c # 82 \/ c4.c # 67
            THEN [exc |-> "runtime_error", status |-> "ok", r |-> c4.r]
            ELSE IF version.status # "ok"
            THEN [exc |-> "", status |-> version.status, r |-> version.r]
            ELSE IF Wlt(version.val, W(ARCHIVE_VERSION - ARCHIVE_AGE))
            THEN [exc |-> "runtime_error", status |-> "ok", r |-> version.r]
            ELSE [exc |-> "", status |-> "ok", r |-> version.r]
    IN  check(read_unsigned(s, c4.r, junk))

\* The header check of operator>>(istream, archive): [exc, status, r].
read_header(s, junk) ==
    LET c1 == get(s, reader, junk)
        c2 == get(s, c1.r, junk)
        c3 == get(s, c2.r, junk)
        c4 == get(s, c3.r, junk)
        check(version) ==
            IF c1.c # 71 \/ c2.c # 65 \/ c3.c # 82 \/ c4.c # 67
            THEN [exc |-> "runtime_error", status |-> "ok", r |-> c4.r]
            ELSE IF version.status # "ok"
            THEN [exc |-> "", status |-> version.status, r |-> version.r]
            ELSE IF \/ Wlt(W(ARCHIVE_VERSION), version.val)
                    \/ Wlt(version.val, W(ARCHIVE_VERSION - ARCHIVE_AGE))
            THEN [exc |-> "runtime_error", status |-> "ok", r |-> version.r]
            ELSE [exc |-> "", status |-> "ok", r |-> version.r]
    IN  check(read_unsigned(s, c4.r, junk))

\* archive_node::archive_node(archive &): the node resize() fills with
unset_node == [props |-> <<>>, has_expression |-> FALSE, e |-> 0]

\* operator>>(istream, archive): [exc, status, ar, pos], pos being where the
\* reader stands when the header has been dealt with.  Each table is resized
\* to the count read and then filled; what a failed read leaves is kept.
\* The statements are named from the last one back to the first: each takes
\* what the statements before it have read.
read_archive(s, junk, ar) ==
    LET fill_nodes(h, atoms, exprs, nodes) ==
            [exc |-> "", status |-> nodes.status,
             ar |-> [atoms |-> atoms.v, exprs |-> exprs.v, nodes |-> nodes.v],
             pos |-> h.r.pos]
        num_nodes(h, atoms, exprs, nn) ==
            IF nn.status # "ok"
            THEN [exc |-> "", status |-> nn.status,
                  ar |-> [ar EXCEPT !.atoms = atoms.v, !.exprs = exprs.v], pos |-> h.r.pos]
            ELSE fill_nodes(h, atoms, exprs,
                     read_nodes(s, junk,
                         [r |-> nn.r, status |-> "ok",
                          v |-> resize(ar.nodes, N(nn.val), unset_node)], 1))
        fill_exprs(h, atoms, exprs) ==
            IF exprs.status # "ok"
            THEN [exc |-> "", status |-> exprs.status,
                  ar |-> [ar EXCEPT !.atoms = atoms.v, !.exprs = exprs.v], pos |-> h.r.pos]
            ELSE num_nodes(h, atoms, exprs, read_unsigned(s, exprs.r, junk))
        num_exprs(h, atoms, ne) ==
            IF ne.status # "ok"
            THEN [exc |-> "", status |-> ne.status, ar |-> [ar EXCEPT !.atoms = atoms.v],
                  pos |-> h.r.pos]
            ELSE fill_exprs(h, atoms,
                     read_exprs(s, junk,
                         [r |-> ne.r, status |-> "ok",
                          v |-> resize(ar.exprs, N(ne.val), [name |-> 0, root |-> 0])], 1))
        fill_atoms(h, atoms) == num_exprs(h, atoms, read_unsigned(s, atoms.r, junk))
        num_atoms(h, na) ==
            IF na.status # "ok"
            THEN [exc |-> "", status |-> na.status, ar |-> ar, pos |-> h.r.pos]
            ELSE fill_atoms(h,
                     read_atoms(s, junk,
                         [r |-> na.r, status |-> "ok",
                          v |-> resize(ar.atoms, N(na.val), <<>>)], 1))
        header(h) ==
            IF h.exc # "" \/ h.status # "ok"
            THEN [exc |-> h.exc, status |-> h.status, ar |-> ar, pos |-> h.r.pos]
            ELSE num_atoms(h, read_unsigned(s, h.r, junk))
    IN  header(read_header(s, junk))

----------------------------------------------------------------------------
(* archive: looking properties up and rebuilding expressions.  Unarchiving  *)
(* allocates expression nodes and fills the nodes' caches, so it carries    *)
(* u = [ar, heap, serial] and returns u with exc (the exception thrown, ""  *)
(* when none) and val (the value returned).                                *)

\* The search loops of the find_ functions: the position in props of the
\* property number index (from 0) that has the type and the name, 0 when
\* there is none.
find_prop(props, type, name_atom, index) ==
    LET hits == { i \in 1..Len(props) : props[i].type = type /\ props[i].name = name_atom }
        upto(i) == { j \in hits : j <= i }
        at == { i \in hits : Cardinality(upto(i)) = index + 1 }
    IN  IF at = {} THEN 0 ELSE Min(at)

\* archive_node::find_bool: [ar, found, val]
find_bool(ar, n, name) ==
    LET a == atomize(ar, name)
        i == find_prop(n.props, PTYPE_BOOL, a.id, 0)
    IN  [ar |-> a.ar, found |-> i # 0, val |-> IF i = 0 THEN FALSE ELSE n.props[i].value # 0]

\* archive_node::find_unsigned: [ar, found, val]
find_unsigned(ar, n, name) ==
    LET a == atomize(ar, name)
        i == find_prop(n.props, PTYPE_UNSIGNED, a.id, 0)
    IN  [ar |-> a.ar, found |-> i # 0, val |-> IF i = 0 THEN 0 ELSE n.props[i].value]

\* archive_node::find_string: [ar, found, val, exc]
find_string(ar, n, name) ==
    LET a == atomize(ar, name)
        i == find_prop(n.props, PTYPE_STRING, a.id, 0)
        s == unatomize(a.ar, n.props[i].value)
    IN  IF i = 0
        THEN [ar |-> a.ar, found |-> FALSE, val |-> <<>>, exc |-> ""]
        ELSE [ar |-> a.ar, found |-> s.exc = "", val |-> s.val, exc |-> s.exc]

\* archive::get_node: the exception it throws, "" when it returns nodes[id]
get_node(ar, id) == IF id >= Len(ar.nodes) THEN "range_error" ELSE ""

returned(u, val) == [ar |-> u.ar, heap |-> u.heap, serial |-> u.serial, exc |-> "", val |-> val]

thrown(u, exc) == [ar |-> u.ar, heap |-> u.heap, serial |-> u.serial, exc |-> exc, val |-> 0]

\* The lookup of symbol::unarchive: the first symbol of sym_lst with the name.
sym_lst_find(h, sym_lst, name) ==
    LET hits == { i \in 1..Len(sym_lst) :
                     h[sym_lst[i]].kind = "symbol" /\ h[sym_lst[i]].name = name }
    IN  IF hits = {} THEN 0 ELSE sym_lst[Min(hits)]

\* symbol::unarchive: a new symbol is made (it takes a serial), with the
\* archived name or a generated one; the symbol of that name in sym_lst is
\* returned in its place when there is one.
symbol_unarchive(u, id, sym_lst) ==
    LET fs == find_string(u.ar, u.ar.nodes[id + 1], str_name)
        name == IF fs.found THEN fs.val ELSE str_symbol \o <<48 + u.serial>>
        known == sym_lst_find(u.heap, sym_lst, name)
        u1 == [u EXCEPT !.ar = fs.ar, !.serial = @ + 1]
    IN  IF fs.exc # ""
        THEN thrown([u EXCEPT !.ar = fs.ar], fs.exc)
        ELSE IF known # 0
        THEN returned(u1, known)
        ELSE returned([u1 EXCEPT !.heap = Append(@, symbol_node(name, u.serial))],
                      Len(u.heap) + 1)

RECURSIVE node_unarchive(_, _, _, _)
RECURSIVE find_ex(_, _, _, _, _, _)
RECURSIVE lst_unarchive_seq(_, _, _, _, _, _)

\* archive_node::find_ex on node id: the result of unarchive with found
find_ex(u, id, name, sym_lst, index, fuel) ==
    LET a == atomize(u.ar, name)
        u1 == [u EXCEPT !.ar = a.ar]
        props == u.ar.nodes[id + 1].props
        i == find_prop(props, PTYPE_NODE, a.id, index)
    IN  IF i = 0
        THEN [found |-> FALSE] @@ returned(u1, 0)
        ELSE IF get_node(u1.ar, props[i].value) # ""
        THEN [found |-> FALSE] @@ thrown(u1, get_node(u1.ar, props[i].value))
        ELSE LET c == node_unarchive(u1, props[i].value, sym_lst, fuel)
             IN  [found |-> c.exc = ""] @@ c

\* archive_node::find_ex_node on node n: [ar, exc, id], id the node returned
find_ex_node(ar, n, name, index) ==
    LET a == atomize(ar, name)
        i == find_prop(n.props, PTYPE_NODE, a.id, index)
    IN  IF i = 0
        THEN [ar |-> a.ar, exc |-> "runtime_error", id |-> 0]
        ELSE [ar |-> a.ar, exc |-> get_node(a.ar, n.props[i].value), id |-> n.props[i].value]

\* lst::unarchive: the children are the node properties "seq", in order
lst_unarchive_seq(u, id, sym_lst, i, children, fuel) ==
    LET c == find_ex(u, id, str_seq, sym_lst, i, fuel)
        u1 == [ar |-> c.ar, heap |-> c.heap, serial |-> c.serial]
    IN  IF c.exc # ""
        THEN thrown(u1, c.exc)
        ELSE IF ~c.found
        THEN returned([u1 EXCEPT !.heap = Append(@, lst_node(children))], Len(u1.heap) + 1)
        ELSE lst_unarchive_seq(u1, id, sym_lst, i + 1, Append(children, c.val), fuel)

\* The classes the registrar knows (find_unarch_func throws for any other).
registered(class_name) == class_name \in {str_symbol, str_lst}

\* Log of the instantiation functions, for the archives that keep one: the
\* function of node id is called in state u; it has returned r
begun(u, id) ==
    IF "runs" \in DOMAIN u.ar
    THEN [u EXCEPT !.ar.runs = Append(@, [id |-> id, ok |-> FALSE])]
    ELSE u

ended(r, id) ==
    IF "runs" \in DOMAIN r.ar
    THEN [r EXCEPT !.ar.runs = Append(@, [id |-> id, ok |-> TRUE])]
    ELSE r

\* archive_node::unarchive that stores nothing in the node
node_unarchive_uncached(u, id, sym_lst, fuel) ==
    LET n == u.ar.nodes[id + 1]
        fs == find_string(u.ar, n, str_class)
        u1 == [u EXCEPT !.ar = fs.ar]
    IN  IF n.has_expression
        THEN returned(u, n.e)
        ELSE IF fuel = 0
        THEN thrown(u, "stack_overflow")
        ELSE IF fs.exc # ""
        THEN thrown(u1, fs.exc)
        ELSE IF ~fs.found
        THEN thrown(u1, "runtime_error")
        ELSE IF ~registered(fs.val)
        THEN thrown(u1, "runtime_error")
        ELSE IF fs.val = str_symbol
        THEN (LET f == symbol_unarchive(begun(u1, id), id, sym_lst)
              IN  IF f.exc # "" THEN f ELSE ended(f, id))
        ELSE (LET f == lst_unarchive_seq(begun(u1, id), id, sym_lst, 0, <<>>, fuel - 1)
              IN  IF f.exc # "" THEN f ELSE ended(f, id))

\* archive_node::unarchive on node id.  fuel is the depth of recursion left:
\* the recursion of a node table whose node properties form a cycle does not
\* end, and overflows the stack.
node_unarchive(u, id, sym_lst, fuel) ==
    LET n == u.ar.nodes[id + 1]
        fs == find_string(u.ar, n, str_class)
        u1 == [u EXCEPT !.ar = fs.ar]
        f == IF fs.val = str_symbol
             THEN symbol_unarchive(begun(u1, id), id, sym_lst)
             ELSE lst_unarchive_seq(begun(u1, id), id, sym_lst, 0, <<>>, fuel - 1)
    IN  IF n.has_expression
        THEN returned(u, n.e)
        ELSE IF fuel = 0
        THEN thrown(u, "stack_overflow")
        ELSE IF fs.exc # ""
        THEN thrown(u1, fs.exc)
        ELSE IF ~fs.found
        THEN thrown(u1, "runtime_error")
        ELSE IF ~registered(fs.val)
        THEN thrown(u1, "runtime_error")
        ELSE IF f.exc # ""
        THEN f
        ELSE ended([f EXCEPT !.ar.nodes[id + 1].e = f.val,
                             !.ar.nodes[id + 1].has_expression = TRUE], id)

\* nodes[root].unarchive(sym_lst) as the unarchive_ex functions call it: the
\* vector is indexed without a check, and an index past its end is undefined
\* behaviour (ub is the outcome the build gives it).
unarchive_root(u, root, sym_lst, ub) ==
    IF root >= Len(u.ar.nodes)
    THEN thrown(u, ub)
    ELSE node_unarchive(u, root, sym_lst, Len(u.ar.nodes))

\* The search loop of unarchive_ex(sym_lst, name): the index (from 0) of the
\* first archived expression with the name atom, exprs.size() when none.
exprs_search(exprs, id) ==
    LET hits == { i \in 1..Len(exprs) : exprs[i].name = id }
    IN  IF hits = {} THEN Len(exprs) ELSE Min(hits) - 1

\* archive::unarchive_ex(const lst &, const char *)
unarchive_ex_name(u, sym_lst, name, ub) ==
    LET a == atomize(u.ar, name)
        u1 == [u EXCEPT !.ar = a.ar]
        i == exprs_search(u.ar.exprs, a.id)
    IN  IF i = Len(u.ar.exprs)
        THEN thrown(u1, "runtime_error")
        ELSE unarchive_root(u1, u.ar.exprs[i + 1].root, sym_lst, ub)

\* archive::unarchive_ex(const lst &, unsigned int)
unarchive_ex_index(u, sym_lst, index, ub) ==
    IF index >= Len(u.ar.exprs)
    THEN thrown(u, "range_error")
    ELSE unarchive_root(u, u.ar.exprs[index + 1].root, sym_lst, ub)

\* archive::unarchive_ex(const lst &, std::string &, unsigned int): the name
\* is returned in the field name
unarchive_ex_named_index(u, sym_lst, index, ub) ==
    LET nm == unatomize(u.ar, u.ar.exprs[index + 1].name)
    IN  IF index >= Len(u.ar.exprs)
        THEN [name |-> <<>>] @@ thrown(u, "range_error")
        ELSE IF nm.exc # ""
        THEN [name |-> <<>>] @@ thrown(u, nm.exc)
        ELSE [name |-> nm.val] @@ unarchive_root(u, u.ar.exprs[index + 1].root, sym_lst, ub)

\* archive::get_top_node: the exception thrown, or the id of the node returned
get_top_node(ar, index, ub) ==
    IF index >= Len(ar.exprs)
    THEN [exc |-> "range_error", id |-> 0]
    ELSE IF ar.exprs[index + 1].root >= Len(ar.nodes)
    THEN [exc |-> ub, id |-> 0]
    ELSE [exc |-> "", id |-> ar.exprs[index + 1].root]

\* archive_node::forget
node_forget(n) == [n EXCEPT !.has_expression = FALSE, !.e = 0]

\* archive::forget
forget(ar) == [ar EXCEPT !.nodes = [i \in 1..Len(ar.nodes) |-> node_forget(ar.nodes[i])]]

\* archive::clear
clear(ar) == [ar EXCEPT !.atoms = <<>>, !.exprs = <<>>, !.nodes = <<>>]

----------------------------------------------------------------------------
(* The handle ex and the nodes (basic) it points to.  A world is            *)
(* w = [node, slot, ub, mutations]: node[n] is the node with address n,    *)
(* with its kind, its refcount, whether delete was applied to it, and seq, *)
(* the handles it owns (the seq of a list, the m of a matrix of row x col  *)
(* elements), each handle being the address in its bp; slot[k] is the bp   *)
(* of the k-th handle of the user's program, 0 while the handle is not     *)
(* constructed; ub is set when a deleted node is used; mutations counts    *)
(* the calls of mutating member functions.                                 *)

\* The handles of the user's program (variables of type ex)
Slots == {1, 2, 3}

basic_node(kind, refcount, seq, row, col) ==
    [kind |-> kind, refcount |-> refcount, deleted |-> FALSE, seq |-> seq,
     row |-> row, col |-> col]

\* exZERO().bp: the node of the static handle exZERO()
exZERO_bp == 1

\* No handle and no node but the static handle exZERO() and its node
world0 ==
    [node |-> <<basic_node("numeric", 1, <<>>, 0, 0)>>,
     slot |-> [k \in Slots |-> 0], ub |-> FALSE, mutations |-> 0]

\* A reference to a handle (ex &): the k-th handle of the user's program, or
\* the i-th handle (0-based) of those owned by node n
slot_ref(k) == [k |-> k, n |-> 0, i |-> 0]

child_ref(n, i) == [k |-> 0, n |-> n, i |-> i]

\* ref.bp
bp(w, ref) == IF ref.k # 0 THEN w.slot[ref.k] ELSE w.node[ref.n].seq[ref.i + 1]

\* ref.bp = p
set_bp(w, ref, p) ==
    IF ref.k # 0
    THEN [w EXCEPT !.slot[ref.k] = p]
    ELSE [w EXCEPT !.node[ref.n].seq[ref.i + 1] = p]

\* ++bp->refcount for bp = p
incref(w, p) ==
    IF w.node[p].deleted
    THEN [w EXCEPT !.ub = TRUE]
    ELSE [w EXCEPT !.node[p].refcount = @ + 1]

RECURSIVE release(_, _)
\* if (--bp->refcount == 0) delete bp, for the bp of todo one after another:
\* delete destroys the handles the node owns, each of which does the same
release(w, todo) ==
    IF todo = <<>>
    THEN w
    ELSE LET p == Head(todo)
             w1 == IF w.node[p].deleted
                   THEN [w EXCEPT !.ub = TRUE]
                   ELSE IF w.node[p].refcount - 1 = 0
                   THEN [w EXCEPT !.node[p].refcount = 0, !.node[p].deleted = TRUE,
                                  !.node[p].seq = <<>>]
                   ELSE [w EXCEPT !.node[p].refcount = @ - 1]
             owned == IF w1.node[p].deleted /\ ~w.node[p].deleted
                      THEN w.node[p].seq
                      ELSE <<>>
         IN  CASE done(w1) -> release(w1, owned \o Tail(todo))

\* ex::ex(): the k-th handle is constructed
ex_default(w, k) == [incref(w, exZERO_bp) EXCEPT !.slot[k] = exZERO_bp]

\* ex::~ex(): the k-th handle is destroyed
ex_dtor(w, k) == [release(w, <<w.slot[k]>>) EXCEPT !.slot[k] = 0]

\* ex::ex(ex const & other), for other.bp = p: the k-th handle is constructed
ex_copy(w, k, p) == [incref(w, p) EXCEPT !.slot[k] = p]

\* ex::operator= with the old node released before other's is held
ex_assign_release_first(w, this, p) ==
    LET w1 == release(w, <<bp(w, this)>>)
    IN  CASE done(w1) -> set_bp(incref(w1, p), this, p)

\* ex::operator=(ex const & other) on the handle this, for other.bp = p
ex_assign(w, this, p) ==
    LET w1 == incref(w, p)
        tmpbp == p
        w2 == release(w1, <<bp(w1, this)>>)
    IN  CASE done(w2) -> set_bp(w2, this, tmpbp)

\* basic::ensure_if_modifiable() on node n: what it throws ("" when nothing)
ensure_if_modifiable(w, n) ==
    IF w.node[n].refcount > 1 THEN "runtime_error" ELSE ""

\* container::append(b) on node n, for b.bp = p: [w, exc]
append(w, n, p) ==
    IF ensure_if_modifiable(w, n) # ""
    THEN [w |-> w, exc |-> ensure_if_modifiable(w, n)]
    ELSE [w |-> [incref(w, p) EXCEPT !.node[n].seq = Append(@, p)], exc |-> ""]

\* container::prepend(b) on node n, for b.bp = p: [w, exc]
prepend(w, n, p) ==
    IF ensure_if_modifiable(w, n) # ""
    THEN [w |-> w, exc |-> ensure_if_modifiable(w, n)]
    ELSE [w |-> [incref(w, p) EXCEPT !.node[n].seq = <<p>> \o @], exc |-> ""]

\* container::let_op(i) on node n, for 0 <= i < nops(): the handle returned
let_op(w, n, i) == child_ref(n, i)

\* matrix::let_op(i) on node n, for an i inside m: the handle returned
matrix_let_op(w, n, i) == child_ref(n, i)

\* matrix::set(ro, co, value) on node n, for a value copied from a handle
\* with bp = p: [w, exc]
matrix_set(w, n, ro, co, p) ==
    LET row == w.node[n].row
        col == w.node[n].col
        w1 == incref(w, p)
        w2 == ex_assign(w1, child_ref(n, ro * col + co), p)
    IN  IF ro < 0 \/ ro >= row \/ co < 0 \/ co >= col
        THEN [w |-> w, exc |-> "range_error"]
        ELSE IF ensure_if_modifiable(w, n) # ""
        THEN [w |-> w, exc |-> ensure_if_modifiable(w, n)]
        ELSE CASE done(w2) -> [w |-> release(w2, <<p>>), exc |-> ""]

\* "No handle": what a call that throws returns
no_ref == child_ref(0, 0)

\* matrix::operator()(ro, co) on node n: [exc, ref], ref the handle returned
matrix_operator_call(w, n, ro, co) ==
    LET row == w.node[n].row
        col == w.node[n].col
    IN  IF ro < 0 \/ ro >= row \/ co < 0 \/ co >= col
        THEN [exc |-> "range_error", ref |-> no_ref]
        ELSE [exc |-> "", ref |-> child_ref(n, ro * col + co)]

\* matrix::let_op(i) on node n for any i: return m[i], with no look at i; an
\* i outside m is undefined behaviour, with the outcome ub: [exc, ref]
matrix_let_op_any(w, n, i, ub) ==
    IF i >= 0 /\ i < Len(w.node[n].seq)
    THEN [exc |-> "", ref |-> matrix_let_op(w, n, i)]
    ELSE [exc |-> ub, ref |-> no_ref]

\* container::let_op(i) on node n for any i: ASSERT(i>=0), ASSERT(i<nops())
\* end the program where assertions are compiled in (doassert); where they
\* are not, the iterator is stepped i times from seq.begin(), not at all for
\* an i below 0, and past seq.end() (undefined behaviour, outcome ub) for an
\* i from nops() on: [exc, ref]
let_op_any(w, n, i, doassert, ub) ==
    IF i >= 0 /\ i < Len(w.node[n].seq)
    THEN [exc |-> "", ref |-> let_op(w, n, i)]
    ELSE IF doassert
    THEN [exc |-> "abort", ref |-> no_ref]
    ELSE IF i < 0 /\ Len(w.node[n].seq) > 0
    THEN [exc |-> "", ref |-> child_ref(n, 0)]
    ELSE [exc |-> ub, ref |-> no_ref]

RECURSIVE increfs(_, _)
\* the copy constructor of each handle of seq
increfs(w, seq) ==
    IF seq = <<>> THEN w ELSE increfs(incref(w, Head(seq)), Tail(seq))

\* ex::makewriteable() on the k-th handle: a node that other handles point to
\* as well is duplicated, and the handle points to the duplicate
makewriteable(w, k) ==
    LET n == w.slot[k]
        bp2 == Len(w.node) + 1
        w1 == [w EXCEPT !.node = Append(@, [w.node[n] EXCEPT !.refcount = 1])]
        w2 == increfs(w1, w.node[n].seq)
    IN  IF w.node[n].refcount > 1
        THEN [w2 EXCEPT !.node[n].refcount = @ - 1, !.slot[k] = bp2]
        ELSE w

\* ex::let_op(i) on the k-th handle: [w, ref], ref the handle returned
ex_let_op(w, k, i) ==
    LET w1 == makewriteable(w, k)
    IN  [w |-> w1,
         ref |-> IF w1.node[w1.slot[k]].kind = "matrix"
                 THEN matrix_let_op(w1, w1.slot[k], i)
                 ELSE let_op(w1, w1.slot[k], i)]

----------------------------------------------------------------------------
(* Matrices (class matrix): determinant, inverse and solve.  The elements   *)
(* are exact rationals <<numerator, denominator>>; for a matrix with        *)
(* symbolic elements they are the values the elements take.                  *)

MaxDim == 2       \* rows of the matrices with elements from Elements
MaxBits == 4      \* rows of the matrices with elements 0 and 1

RECURSIVE gcd(_, _)
gcd(a, b) == IF b = 0 THEN a ELSE gcd(b, a % b)

\* The rational n / d in lowest terms, d # 0
rational(n, d) ==
    LET lowest(g) == IF d < 0 THEN <<(0 - n) \div g, (0 - d) \div g>> ELSE <<n \div g, d \div g>>
    IN  lowest(gcd(IF n < 0 THEN 0 - n ELSE n, IF d < 0 THEN 0 - d ELSE d))

ex_add(lh, rh) == rational(lh[1] * rh[2] + rh[1] * lh[2], lh[2] * rh[2])

ex_sub(lh, rh) == rational(lh[1] * rh[2] - rh[1] * lh[2], lh[2] * rh[2])

ex_mul(lh, rh) == rational(lh[1] * rh[1], lh[2] * rh[2])

\* lh / rh, rh not zero
ex_div(lh, rh) == rational(lh[1] * rh[2], lh[2] * rh[1])

is_zero(e) == e[1] = 0

\* matrix(r, c, m2): r rows, c columns, the elements m row by row; symbolic
\* when some element is not numeric
matrix(r, c, m2, symbolic) == [row |-> r, col |-> c, m |-> m2, symbolic |-> symbolic]

\* matrix::pivot(ro): the matrix after the call and what the call returns
pivot(M, ro) ==
    LET RECURSIVE search(_)
        search(r) == IF r >= M.row THEN ro
                     ELSE IF ~is_zero(M.m[r * M.col + ro + 1]) THEN r
                     ELSE search(r + 1)
        swapped(k) ==
            [i \in 1..Len(M.m) |->
                IF (i - 1) \div M.col = k THEN M.m[ro * M.col + ((i - 1) % M.col) + 1]
                ELSE IF (i - 1) \div M.col = ro THEN M.m[k * M.col + ((i - 1) % M.col) + 1]
                ELSE M.m[i]]
        found(k) == IF is_zero(M.m[k * M.col + ro + 1]) THEN [M |-> M, indx |-> 0 - 1]
                    ELSE IF k # ro THEN [M |-> [M EXCEPT !.m = swapped(k)], indx |-> k]
                    ELSE [M |-> M, indx |-> 0]
    IN  found(search(ro))

\* determinant_numeric(M), M square
determinant_numeric(M) ==
    LET n == M.row
        RECURSIVE rows(_, _, _)
        rows(r1, tmp, det) ==
            LET eliminated(t) ==
                    [i \in 1..Len(t.m) |->
                        IF (i - 1) \div n > r1 /\ (i - 1) % n > r1
                        THEN ex_sub(t.m[i],
                                    ex_mul(ex_div(t.m[((i - 1) \div n) * n + r1 + 1],
                                                  t.m[r1 * n + r1 + 1]),
                                           t.m[r1 * n + ((i - 1) % n) + 1]))
                        ELSE t.m[i]]
                pivoted(p) ==
                    IF p.indx = 0 - 1 THEN <<0, 1>>
                    ELSE rows(r1 + 1, [p.M EXCEPT !.m = eliminated(p.M)],
                              ex_mul(IF p.indx # 0 THEN ex_mul(det, <<0 - 1, 1>>) ELSE det,
                                     p.M.m[r1 * n + r1 + 1]))
            IN  IF r1 >= n THEN det ELSE pivoted(pivot(tmp, r1))
    IN  rows(0, M, <<1, 1>>)

\* Every arrangement taken for even
permutation_sign_even(s) == 1

\* permutation_sign(s): 0 for fewer than two things or for two equal things
permutation_sign(s) ==
    LET RECURSIVE sort(_, _, _, _)
        sort(i, j, v, sigma) ==
            IF i > Len(v) - 1 THEN sigma
            ELSE IF j > Len(v) THEN sort(i + 1, i + 2, v, sigma)
            ELSE IF v[i] = v[j] THEN 0
            ELSE IF v[i] > v[j]
            THEN sort(i, j + 1, [v EXCEPT ![i] = v[j], ![j] = v[i]], 0 - sigma)
            ELSE sort(i, j + 1, v, sigma)
    IN  IF Len(s) < 2 THEN 0 ELSE sort(1, 2, s, 1)

\* The arrangements of 0 .. n-1 that next_permutation goes through, from
\* the identity on
Sigmas ==
    [n \in 1..(MaxBits + 1) |->
        { s \in [1..n -> 0..(n - 1)] : \A i \in 1..n, j \in 1..n : i # j => s[i] # s[j] }]

\* determinant_symbolic_perm(M), M square
determinant_symbolic_perm(M) ==
    LET n == M.col
        RECURSIVE term(_, _)
        term(sigma, i) == IF i >= n THEN <<1, 1>>
                          ELSE ex_mul(M.m[sigma[i + 1] * n + i + 1], term(sigma, i + 1))
        RECURSIVE det(_)
        det(sigmas) ==
            IF sigmas = {} THEN <<0, 1>>
            ELSE LET sigma == CHOOSE s \in sigmas : TRUE
                 IN  ex_add(ex_mul(<<permutation_sign(sigma), 1>>, term(sigma, 0)),
                            det(sigmas \ {sigma}))
    IN  IF M.row = 1 THEN M.m[1]
        ELSE det(Sigmas[n])

\* determinant_symbolic_minor(M), M square
RECURSIVE determinant_symbolic_minor(_)
determinant_symbolic_minor(M) ==
    LET n == M.row
        at(r, c) == M.m[r * n + c + 1]
        minorM(r1) ==
            matrix(n - 1, n - 1,
                   [i \in 1..((n - 1) * (n - 1)) |->
                       IF (i - 1) \div (n - 1) < r1
                       THEN at((i - 1) \div (n - 1), ((i - 1) % (n - 1)) + 1)
                       ELSE at(((i - 1) \div (n - 1)) + 1, ((i - 1) % (n - 1)) + 1)],
                   M.symbolic)
        RECURSIVE rows(_, _)
        rows(r1, det) ==
            IF r1 >= n THEN det
            ELSE rows(r1 + 1,
                      IF r1 % 2 = 1
                      THEN ex_sub(det, ex_mul(at(r1, 0), determinant_symbolic_minor(minorM(r1))))
                      ELSE ex_add(det, ex_mul(at(r1, 0), determinant_symbolic_minor(minorM(r1)))))
    IN  CASE n = 1 -> at(0, 0)
          [] n = 2 -> ex_sub(ex_mul(at(0, 0), at(1, 1)), ex_mul(at(1, 0), at(0, 1)))
          [] n = 3 ->
                ex_add(ex_add(ex_mul(ex_sub(ex_mul(at(2, 1), at(0, 2)), ex_mul(at(2, 2), at(0, 1))),
                                     at(1, 0)),
                              ex_mul(ex_sub(ex_mul(at(1, 2), at(0, 1)), ex_mul(at(1, 1), at(0, 2))),
                                     at(2, 0))),
                       ex_mul(ex_sub(ex_mul(at(2, 2), at(1, 1)), ex_mul(at(2, 1), at(1, 2))),
                              at(0, 0)))
          [] OTHER -> rows(0, <<0, 1>>)

\* matrix::determinant(normalized): what it throws and what it returns;
\* normal() leaves the value of an expression as it is
determinant(M, normalized) ==
    IF M.row # M.col THEN [exc |-> "logic_error", val |-> <<0, 1>>]
    ELSE IF M.symbolic
    THEN IF normalized THEN [exc |-> "", val |-> determinant_symbolic_minor(M)]
         ELSE [exc |-> "", val |-> determinant_symbolic_perm(M)]
    ELSE [exc |-> "", val |-> determinant_numeric(M)]

\* matrix::mul(other)
matrix_mul(M, other) ==
    LET RECURSIVE prod(_, _, _)
        prod(i, j, l) ==
            IF l >= M.col THEN <<0, 1>>
            ELSE ex_add(ex_mul(M.m[i * M.col + l + 1], other.m[l * other.col + j + 1]),
                        prod(i, j, l + 1))
    IN  IF M.col # other.row THEN [exc |-> "logic_error", val |-> M]
        ELSE [exc |-> "",
              val |-> matrix(M.row, other.col,
                             [k \in 1..(M.row * other.col) |->
                                 prod((k - 1) \div other.col, (k - 1) % other.col, 0)],
                             M.symbolic \/ other.symbolic)]

\* matrix::inverse()
inverse(M) ==
    LET row == M.row
        col == M.col
        unit == [i \in 1..(row * col) |->
                    IF (i - 1) \div col = (i - 1) % col THEN <<1, 1>> ELSE <<0, 1>>]
        \* rows r1 and indx of tmp swapped
        swap(tmp, r1, indx) ==
            [i \in 1..Len(tmp) |->
                IF (i - 1) \div col = r1 THEN tmp[indx * col + ((i - 1) % col) + 1]
                ELSE IF (i - 1) \div col = indx THEN tmp[r1 * col + ((i - 1) % col) + 1]
                ELSE tmp[i]]
        \* row r1 divided by a1
        divided(m, r1, a1) ==
            [i \in 1..Len(m) |-> IF (i - 1) \div col = r1 THEN ex_div(m[i], a1) ELSE m[i]]
        \* a2 times row r1 taken from every other row r2, a2 = cpy.m[r2*col+r1]
        reduced(m, cpy, r1) ==
            [i \in 1..Len(m) |->
                IF (i - 1) \div col # r1
                THEN ex_sub(m[i], ex_mul(cpy[((i - 1) \div col) * col + r1 + 1],
                                         m[r1 * col + ((i - 1) % col) + 1]))
                ELSE m[i]]
        RECURSIVE rows(_, _, _)
        rows(r1, cpy, tmp) ==
            LET scaled(c, t) == rows(r1 + 1, reduced(c, c, r1), reduced(t, c, r1))
                pivoted(p) ==
                    IF p.indx = 0 - 1 THEN [exc |-> "runtime_error", val |-> M]
                    ELSE scaled(divided(p.M.m, r1, p.M.m[r1 * col + r1 + 1]),
                                divided(IF p.indx # 0 THEN swap(tmp, r1, p.indx) ELSE tmp,
                                        r1, p.M.m[r1 * col + r1 + 1]))
            IN  IF r1 >= row THEN [exc |-> "", val |-> matrix(row, col, tmp, M.symbolic)]
                ELSE pivoted(pivot([M EXCEPT !.m = cpy], r1))
    IN  IF row # col THEN [exc |-> "logic_error", val |-> M]
        ELSE rows(0, M.m, unit)

\* matrix::solve(v)
solve(M, v) ==
    LET row == M.row
        col == M.col
        tcol == col + v.col
        \* the extended matrix: this with v attached to the right
        extended ==
            [i \in 1..(row * tcol) |->
                IF (i - 1) % tcol < col THEN M.m[((i - 1) \div tcol) * col + ((i - 1) % tcol) + 1]
                ELSE v.m[((i - 1) \div tcol) * v.col + ((i - 1) % tcol) - col + 1]]
        \* for (c=r1; c<tmp.col; ++c) tmp.m[r1*tmp.col+c] /= tmp.m[r1*tmp.col+r1]
        RECURSIVE divide(_, _, _)
        divide(t, r1, c) ==
            IF c >= tcol THEN t
            ELSE divide([t EXCEPT ![r1 * tcol + c + 1] = ex_div(@, t[r1 * tcol + r1 + 1])],
                        r1, c + 1)
        \* for (c=r1; c<tmp.col; ++c)
        \*     tmp.m[r2*tmp.col+c] -= tmp.m[r2*tmp.col+r1] * tmp.m[r1*tmp.col+c]
        RECURSIVE subtract(_, _, _, _)
        subtract(t, r1, r2, c) ==
            IF r2 >= row THEN t
            ELSE IF c >= tcol THEN subtract(t, r1, r2 + 1, r1)
            ELSE subtract([t EXCEPT ![r2 * tcol + c + 1] =
                              ex_sub(@, ex_mul(t[r2 * tcol + r1 + 1], t[r1 * tcol + c + 1]))],
                          r1, r2, c + 1)
        \* sol[r*v.col+c] = tmp[r*tmp.col+c], less tmp[r*tmp.col+i] * sol[i*v.col+c]
        \* for the rows i below r
        RECURSIVE less(_, _, _, _, _)
        less(tmp, sol, r, c, i) ==
            IF i >= col THEN sol
            ELSE less(tmp,
                      [sol EXCEPT ![r * v.col + c + 1] =
                          ex_sub(@, ex_mul(tmp[r * tcol + i + 1], sol[i * v.col + c + 1]))],
                      r, c, i + 1)
        RECURSIVE assemble(_, _, _, _)
        assemble(tmp, sol, c, r) ==
            IF c >= v.col THEN sol
            ELSE IF r < 0 THEN assemble(tmp, sol, c + 1, col - 1)
            ELSE assemble(tmp,
                          less(tmp, [sol EXCEPT ![r * v.col + c + 1] = tmp[r * tcol + c + 1]],
                               r, c, r + 1),
                          c, r - 1)
        RECURSIVE rows(_, _)
        rows(r1, tmp) ==
            LET pivoted(p) ==
                    IF p.indx = 0 - 1 THEN [exc |-> "runtime_error", val |-> v]
                    ELSE rows(r1 + 1, subtract(divide(p.M.m, r1, r1), r1, r1 + 1, r1))
            IN  IF r1 >= row
                THEN [exc |-> "",
                      val |-> matrix(v.row, v.col,
                                     assemble(tmp, [i \in 1..(v.row * v.col) |-> <<0, 1>>],
                                              0, col - 1),
                                     M.symbolic \/ v.symbolic)]
                ELSE pivoted(pivot(matrix(row, tcol, tmp, M.symbolic), r1))
    IN  IF ~(row = col /\ col = v.row) THEN [exc |-> "logic_error", val |-> v]
        ELSE rows(0, extended)

----------------------------------------------------------------------------
(* Sums and products (class expairseq with its subclasses add and mul): the *)
(* constructor that brings the operands of operator+ and operator* into     *)
(* canonical form.  Coefficients and exponents are integers.                *)

MaxOps == 2       \* applications of operator+ and operator* in one program

numeric(value) == [tinfo |-> "numeric", value |-> value]

symbol(serial) == [tinfo |-> "symbol", serial |-> serial]

power(basis, exponent) == [tinfo |-> "power", basis |-> basis, exponent |-> exponent]

\* (rest, coeff): coeff * rest in a sum, rest ^ coeff in a product
expair(rest, coeff) == [rest |-> rest, coeff |-> coeff]

expairseq(tinfo, seq, overall_coeff) ==
    [tinfo |-> tinfo, seq |-> seq, overall_coeff |-> overall_coeff]

\* The total order of the expressions: the kind first, then numerics by
\* value, symbols by serial, composites over their children and then by arity.
RECURSIVE compare(_, _)
compare(a, b) ==
    LET sgn(n) == IF n < 0 THEN -1 ELSE IF n > 0 THEN 1 ELSE 0
        rank(t) == CASE t = "numeric" -> 1 [] t = "symbol" -> 2 [] t = "add" -> 3
                     [] t = "mul" -> 4 [] t = "power" -> 5
        RECURSIVE children(_)
        children(i) ==
            LET rest(c) == IF c # 0 THEN c
                           ELSE IF a.seq[i].coeff # b.seq[i].coeff
                                THEN sgn(a.seq[i].coeff - b.seq[i].coeff)
                                ELSE children(i + 1)
            IN  IF i > Len(a.seq) \/ i > Len(b.seq)
                THEN IF Len(a.seq) # Len(b.seq) THEN sgn(Len(a.seq) - Len(b.seq))
                     ELSE sgn(a.overall_coeff - b.overall_coeff)
                ELSE rest(compare(a.seq[i].rest, b.seq[i].rest))
        basis(c) == IF c # 0 THEN c ELSE sgn(a.exponent - b.exponent)
    IN  IF a.tinfo # b.tinfo THEN sgn(rank(a.tinfo) - rank(b.tinfo))
        ELSE CASE a.tinfo = "numeric" -> sgn(a.value - b.value)
               [] a.tinfo = "symbol" -> sgn(a.serial - b.serial)
               [] a.tinfo = "power" -> basis(compare(a.basis, b.basis))
               [] OTHER -> children(1)

\* The additive identity for a sum, the multiplicative for a product
default_overall_coeff(tinfo) == IF tinfo = "add" THEN 0 ELSE 1

\* The overall coefficient oc after c1 was folded into it: c2 times c1 added
\* in a sum, c1 ^ c2 multiplied in a product (c2 >= 0)
combine_overall_coeff(tinfo, oc, c1, c2) ==
    LET RECURSIVE numeric_power(_)
        numeric_power(n) == IF n <= 0 THEN 1 ELSE c1 * numeric_power(n - 1)
    IN  IF tinfo = "add" THEN oc + c1 * c2 ELSE oc * numeric_power(c2)

\* The pair (rest, coeff) as an expression: coeff * rest of a sum, rest ^ coeff
\* of a product
recombine_pair_to_ex(tinfo, p) ==
    IF p.coeff = 1 THEN p.rest
    ELSE IF tinfo = "mul" THEN power(p.rest, p.coeff)
    ELSE IF p.rest.tinfo = "mul" THEN expairseq("mul", p.rest.seq, p.coeff)
    ELSE IF p.rest.tinfo = "power"
    THEN expairseq("mul", <<expair(p.rest.basis, p.rest.exponent)>>, p.coeff)
    ELSE expairseq("mul", <<expair(p.rest, 1)>>, p.coeff)

\* Step 1, split.  In a sum e = coeff * rest: a numeric gives (1, value), a
\* product with the overall coefficient c gives (the product without it, c).
\* In a product e = rest ^ coeff: a power gives (basis, exponent).
split_ex_to_pair(tinfo, e) ==
    CASE tinfo = "add" /\ e.tinfo = "numeric" -> expair(numeric(1), e.value)
      [] tinfo = "add" /\ e.tinfo = "mul" ->
            expair(IF Len(e.seq) = 1 THEN recombine_pair_to_ex("mul", e.seq[1])
                   ELSE expairseq("mul", e.seq, 1), e.overall_coeff)
      [] tinfo = "mul" /\ e.tinfo = "power" -> expair(e.basis, e.exponent)
      [] OTHER -> expair(e, 1)

\* Steps 1 and 2, split and flatten: the pairs of the operands v, those of an
\* operand of the same kind spliced in with the outer coefficient spread
\* over them and its overall coefficient folded into the overall coefficient.
RECURSIVE make_flat(_, _)
make_flat(tinfo, v) ==
    LET spliced(p, tail) ==
            [seq |-> [i \in 1..Len(p.rest.seq) |->
                         expair(p.rest.seq[i].rest, p.rest.seq[i].coeff * p.coeff)] \o tail.seq,
             overall_coeff |-> combine_overall_coeff(tinfo, tail.overall_coeff,
                                                     p.rest.overall_coeff, p.coeff)]
        pair(p, tail) ==
            IF p.rest.tinfo = tinfo THEN spliced(p, tail)
            ELSE [tail EXCEPT !.seq = <<p>> \o @]
    IN  IF v = <<>> THEN [seq |-> <<>>, overall_coeff |-> default_overall_coeff(tinfo)]
        ELSE pair(split_ex_to_pair(tinfo, Head(v)), make_flat(tinfo, Tail(v)))

\* Step 3, sort: the pairs in the total order of their rests
RECURSIVE canonicalize(_)
canonicalize(seq) ==
    LET insert(p, s) ==
            LET k == Cardinality({i \in 1..Len(s) : compare(s[i].rest, p.rest) < 0})
            IN  SubSeq(s, 1, k) \o <<p>> \o SubSeq(s, k + 1, Len(s))
    IN  IF seq = <<>> THEN <<>> ELSE insert(Head(seq), canonicalize(Tail(seq)))

\* Like terms left apart
combine_same_terms_left_apart(seq) == seq

\* Step 4, combine like terms: adjacent pairs with equal rest become one
RECURSIVE combine_same_terms_sorted_seq(_)
combine_same_terms_sorted_seq(seq) ==
    IF Len(seq) < 2 THEN seq
    ELSE IF compare(seq[1].rest, seq[2].rest) = 0
    THEN combine_same_terms_sorted_seq(
             <<expair(seq[1].rest, seq[1].coeff + seq[2].coeff)>> \o SubSeq(seq, 3, Len(seq)))
    ELSE <<seq[1]>> \o combine_same_terms_sorted_seq(Tail(seq))

\* Steps 5 and 6, drop zeros and float the overall coefficient: the pairs with
\* the coefficient 0 are left out, the numeric pairs are folded into the
\* overall coefficient.
RECURSIVE add_numerics(_, _, _)
add_numerics(tinfo, seq, oc) ==
    IF seq = <<>> THEN [seq |-> <<>>, overall_coeff |-> oc]
    ELSE IF Head(seq).coeff = 0 THEN add_numerics(tinfo, Tail(seq), oc)
    ELSE IF Head(seq).rest.tinfo = "numeric"
    THEN add_numerics(tinfo, Tail(seq),
                      combine_overall_coeff(tinfo, oc, Head(seq).rest.value, Head(seq).coeff))
    ELSE LET kept(r) == [r EXCEPT !.seq = <<Head(seq)>> \o @]
         IN  kept(add_numerics(tinfo, Tail(seq), oc))

\* Step 7, collapse: what the handle made from the node e holds.  A product
\* with the overall coefficient 0 is 0, a node without pairs is its overall
\* coefficient, one pair with the identity overall coefficient is the
\* recombined term.  Whether a numeric times a sum stays a product or
\* becomes the sum of the multiples is left open (distribute): with the
\* product kept, adding 0 to it spreads the numeric over the sum in make_flat.
eval(distribute, e) ==
    IF e.tinfo = "mul" /\ e.overall_coeff = 0 THEN numeric(0)
    ELSE IF e.seq = <<>> THEN numeric(e.overall_coeff)
    ELSE IF Len(e.seq) = 1 /\ e.overall_coeff = default_overall_coeff(e.tinfo)
    THEN recombine_pair_to_ex(e.tinfo, e.seq[1])
    ELSE IF /\ distribute
            /\ e.tinfo = "mul" /\ Len(e.seq) = 1
            /\ e.seq[1].rest.tinfo = "add" /\ e.seq[1].coeff = 1
    THEN expairseq("add",
                   [i \in 1..Len(e.seq[1].rest.seq) |->
                       expair(e.seq[1].rest.seq[i].rest,
                              e.seq[1].rest.seq[i].coeff * e.overall_coeff)],
                   e.seq[1].rest.overall_coeff * e.overall_coeff)
    ELSE e

\* The node of kind tinfo made from the operands v
construct_from_exvector(distribute, tinfo, v) ==
    LET floated(r) == eval(distribute, expairseq(tinfo, r.seq, r.overall_coeff))
        sorted(seq, oc) ==
            floated(add_numerics(tinfo, combine_same_terms_sorted_seq(seq), oc))
        flat(r) == sorted(canonicalize(r.seq), r.overall_coeff)
    IN  flat(make_flat(tinfo, v))

operator_add(distribute, lh, rh) == construct_from_exvector(distribute, "add", <<lh, rh>>)

operator_mul(distribute, lh, rh) == construct_from_exvector(distribute, "mul", <<lh, rh>>)

\* No program computing with sums and products runs
KernelIdle ==
    /\ terms = [ex |-> <<>>, ops |-> 0, distribute |-> FALSE]
    /\ mat = [M |-> matrix(0, 0, <<>>, FALSE), last |-> [op |-> "none"]]
    /\ tree = [chain |-> <<>>, last |-> [op |-> "none"]]

----------------------------------------------------------------------------
(* The archive as a state machine: the user has built expressions, archives *)
(* them, writes the archive to the stream, reads the stream and unarchives. *)

\* The outcomes of an out-of-bounds vector read: the process dies, or the
\* call goes on with what lies beyond the vector.
UBOutcomes == {"segfault", "garbage"}

\* What an uninitialised char can hold after a get() that failed.
JunkBytes == {0, 255}

sym_x == symbol_node(str_x, 1)

sym_y == symbol_node(str_y, 2)

\* The expressions the user has built: two symbols in a list; one symbol
\* held by two nodes; nested lists that share a child; an empty list.
Heaps ==
    { <<sym_x, sym_y, lst_node(<<1, 2>>)>>,
      <<sym_x, sym_x, lst_node(<<1, 2>>)>>,
      <<sym_x, lst_node(<<1, 1>>), lst_node(<<2, 1>>)>>,
      <<lst_node(<<>>), lst_node(<<1, 1>>), sym_y>> }

\* The list of the declared symbols that have a node in h (the first node of
\* each, in the order of the serials).
RECURSIVE full_sym_lst(_, _)
full_sym_lst(h, serial) ==
    LET hits == { i \in 1..Len(h) : h[i].kind = "symbol" /\ h[i].serial = serial }
    IN  IF serial > Cardinality(Symbols)
        THEN <<>>
        ELSE (IF hits = {} THEN <<>> ELSE <<Min(hits)>>) \o full_sym_lst(h, serial + 1)

SymLsts(h) == { <<>>, full_sym_lst(h, 1) }

\* The nodes of the expression e of heap h
RECURSIVE reach(_, _)
reach(h, e) ==
    {e} \cup UNION { reach(h, h[e].seq[i]) : i \in 1..Len(h[e].seq) }

ArchiveIds == {1, 2}

state(i) == [ar |-> ars[i], heap |-> heap, serial |-> nextSerial]

\* What the claims need to know of the past of archive i
ghost0 ==
    [log |-> [i \in ArchiveIds |-> <<>>],       \* the expressions it holds: name and e of each
     built |-> [i \in ArchiveIds |-> TRUE],     \* built from empty by archive_ex alone
     clean |-> [i \in ArchiveIds |-> TRUE],     \* no stream was read into it while it held anything
     lacking |-> [i \in ArchiveIds |-> FALSE],  \* an unarchive was given a list lacking symbols
     written |-> FALSE,                         \* the stream holds a written archive
     streamLog |-> <<>>,                        \* log, of the archive that was written
     streamClean |-> TRUE,                      \* clean, of the archive that was written
     header |-> [sig |-> Signature, version |-> ARCHIVE_VERSION]]  \* as the stream has it

\* Nothing written to the stream one by one, nothing read back
varint0 == [vals |-> <<>>, ends |-> <<>>, r |-> reader, got |-> <<>>]

\* The user's program builds archive 1 ("build") and then either works on
\* it directly ("direct") or writes it to the stream and reads the stream into
\* archive 2, to work on that ("written").
Init ==
    /\ KernelIdle
    /\ heap \in Heaps
    /\ nextSerial = Cardinality(Symbols) + 1
    /\ evalOrder \in {"ltr", "rtl"}
    /\ ars = [i \in ArchiveIds |-> empty_archive]
    /\ stream = <<>>
    /\ phase = "build"
    /\ last = [op |-> "none"]
    /\ ghost = ghost0
    /\ varint = varint0
    /\ world = world0

\* The phase in which archive i may be looked into, and the phase afterwards
lookup_phase(i) ==
    IF i = 1 THEN phase \in {"build", "direct"} ELSE phase = "written"

after_lookup(i) == IF i = 1 THEN "direct" ELSE phase

ArchiveEx(i, e, name) ==
    /\ phase = "build"
    /\ Len(ars[i].exprs) < MaxExprs
    /\ ars' = [ars EXCEPT ![i] = archive_ex(ars[i], e, name)]
    /\ last' = [op |-> "archive_ex", ar |-> i, e |-> e, name |-> name,
                known |-> add_node_search(ars[i].nodes, [has_expression |-> TRUE, e |-> e]),
                nodes |-> Len(ars[i].nodes)]
    /\ ghost' = [ghost EXCEPT !.log[i] = Append(@, [name |-> name, e |-> e])]
    /\ UNCHANGED <<kernel, varint, world, heap, nextSerial, evalOrder, stream, phase>>

Write(i) ==
    /\ phase = "build"
    /\ stream' = write_archive(ars[i])
    /\ phase' = "written"
    /\ last' = [op |-> "write", ar |-> i]
    /\ ghost' = [ghost EXCEPT !.written = TRUE, !.streamLog = ghost.log[i],
                              !.streamClean = ghost.clean[i]]
    /\ UNCHANGED <<kernel, varint, world, heap, nextSerial, evalOrder, ars>>

Read(i, junk) ==
    /\ phase = "written"
    /\ \E r \in {read_archive(stream, junk, ars[i])} :
           /\ ars' = [ars EXCEPT ![i] = r.ar]
           /\ last' = [op |-> "read", ar |-> i, exc |-> r.exc, status |-> r.status,
                       pos |-> r.pos, before |-> ars[i]]
           /\ ghost' = [ghost EXCEPT
                          !.log[i] = IF r.exc = "" THEN ghost.streamLog ELSE @,
                          !.built[i] = FALSE,
                          !.clean[i] = ars[i] = empty_archive /\ ghost.streamClean,
                          !.lacking[i] = IF ars[i] = empty_archive THEN FALSE ELSE @]
    /\ UNCHANGED <<kernel, varint, world, heap, nextSerial, evalOrder, stream, phase>>

\* What the unarchive_ex functions leave behind, r being what the call gave
Unarchived(i, op, sym_lst, key, r) ==
    /\ Len(r.heap) <= MaxHeap
    /\ r.serial <= MaxSerial
    /\ heap' = r.heap
    /\ nextSerial' = r.serial
    /\ ars' = [ars EXCEPT ![i] = r.ar]
    /\ phase' = after_lookup(i)
    /\ last' = [op |-> op, ar |-> i, sym_lst |-> sym_lst, key |-> key,
                exc |-> r.exc, val |-> r.val]
    /\ ghost' = [ghost EXCEPT !.lacking[i] = @ \/ sym_lst # full_sym_lst(heap, 1)]
    /\ UNCHANGED <<kernel, varint, world, evalOrder, stream>>

UnarchiveExName(i, sym_lst, name, ub) ==
    /\ lookup_phase(i)
    /\ \E r \in {unarchive_ex_name(state(i), sym_lst, name, ub)} :
           Unarchived(i, "unarchive_ex_name", sym_lst, name, r)

UnarchiveExIndex(i, sym_lst, index, ub) ==
    /\ lookup_phase(i)
    /\ \E r \in {unarchive_ex_index(state(i), sym_lst, index, ub)} :
           Unarchived(i, "unarchive_ex_index", sym_lst, index, r)

Forget(i) ==
    /\ lookup_phase(i)
    /\ \E k \in 1..Len(ars[i].nodes) : ars[i].nodes[k].has_expression
    /\ ars' = [ars EXCEPT ![i] = forget(ars[i])]
    /\ phase' = after_lookup(i)
    /\ last' = [op |-> "forget", ar |-> i]
    /\ ghost' = [ghost EXCEPT !.lacking[i] = FALSE, !.built[i] = FALSE]
    /\ UNCHANGED <<kernel, varint, world, heap, nextSerial, evalOrder, stream>>

UnarchiveExNamedIndex(i, sym_lst, index, ub) ==
    /\ lookup_phase(i)
    /\ \E r \in {unarchive_ex_named_index(state(i), sym_lst, index, ub)} :
           Unarchived(i, "unarchive_ex_named_index", sym_lst, index, r)

GetTopNode(i, index, ub) ==
    /\ lookup_phase(i)
    /\ phase' = after_lookup(i)
    /\ last' = [op |-> "get_top_node", ar |-> i, key |-> index,
                exc |-> get_top_node(ars[i], index, ub).exc]
    /\ UNCHANGED <<kernel, varint, world, heap, nextSerial, evalOrder, ars, stream, ghost>>

GetNode(i, id) ==
    /\ lookup_phase(i)
    /\ phase' = after_lookup(i)
    /\ last' = [op |-> "get_node", ar |-> i, key |-> id, exc |-> get_node(ars[i], id)]
    /\ UNCHANGED <<kernel, varint, world, heap, nextSerial, evalOrder, ars, stream, ghost>>

Unatomize(i, id) ==
    /\ lookup_phase(i)
    /\ phase' = after_lookup(i)
    /\ \E r \in {unatomize(ars[i], id)} :
           last' = [op |-> "unatomize", ar |-> i, key |-> id, exc |-> r.exc, val |-> r.val]
    /\ UNCHANGED <<kernel, varint, world, heap, nextSerial, evalOrder, ars, stream, ghost>>

\* Building archive 1, writing it and reading the stream into archive 2
Next ==
    \/ \E e \in 1..Len(heap), name \in ExprNames : ArchiveEx(1, e, name)
    \/ Write(1)
    \/ \E junk \in JunkBytes : Read(2, junk)

Spec == Init /\ [][Next]_vars

\* The same, and unarchiving
NextUnarchive ==
    \/ Next
    \/ \E i \in ArchiveIds, name \in ExprNames, ub \in UBOutcomes :
          \E sym_lst \in SymLsts(heap) : UnarchiveExName(i, sym_lst, name, ub)
    \/ \E i \in ArchiveIds : Forget(i)

SpecUnarchive == Init /\ [][NextUnarchive]_vars

\* Both archives are built, archive 1 is written and archive 2 reads the
\* stream while it holds what was archived into it; the expressions are
\* archived and looked up under the name "" and every symbol is supplied
InitReplace ==
    /\ KernelIdle
    /\ heap = <<sym_x, sym_y, lst_node(<<1, 2>>)>>
    /\ nextSerial = Cardinality(Symbols) + 1
    /\ evalOrder = "ltr"
    /\ ars = [i \in ArchiveIds |-> empty_archive]
    /\ stream = <<>>
    /\ phase = "build"
    /\ last = [op |-> "none"]
    /\ ghost = ghost0
    /\ varint = varint0
    /\ world = world0

NextReplace ==
    \/ \E i \in ArchiveIds, e \in 1..Len(heap) : ArchiveEx(i, e, str_empty)
    \/ Write(1)
    \/ \E junk \in JunkBytes : Read(2, junk)
    \/ \E ub \in UBOutcomes : UnarchiveExName(2, full_sym_lst(heap, 1), str_empty, ub)
    \/ Forget(2)

SpecReplace == InitReplace /\ [][NextReplace]_vars

----------------------------------------------------------------------------
(* Lookups in an archive that was built: unarchive_ex by name and the find_ *)
(* functions of its nodes, with names the archive has and names it has not. *)

\* A string no expression and no class has for a name
str_z == <<122>>

\* The names looked up
LookupNames == {str_class, str_seq, str_x, str_empty, str_z}

\* What a lookup leaves behind: ar is the archive afterwards
LookedUp(op, n, name, ar, exc) ==
    /\ phase \in {"build", "direct"}
    /\ ars' = [ars EXCEPT ![1] = ar]
    /\ phase' = "direct"
    /\ last' = [op |-> op, ar |-> 1, n |-> n, key |-> name, exc |-> exc, before |-> ars[1]]
    /\ UNCHANGED <<kernel, varint, world, heap, nextSerial, evalOrder, stream, ghost>>

\* unarchive_ex(sym_lst, name) on the archive that was built: its nodes hold
\* the expressions they were made from
LookupEx(name, ub) ==
    \E r \in {unarchive_ex_name(state(1), full_sym_lst(heap, 1), name, ub)} :
        /\ r.heap = heap
        /\ LookedUp("unarchive_ex", 0, name, r.ar, r.exc)

\* nodes[n].find_bool(name, ret)
FindBool(n, name) ==
    /\ n < Len(ars[1].nodes)
    /\ LookedUp("find_bool", n, name, find_bool(ars[1], ars[1].nodes[n + 1], name).ar, "")

\* nodes[n].find_unsigned(name, ret)
FindUnsigned(n, name) ==
    /\ n < Len(ars[1].nodes)
    /\ LookedUp("find_unsigned", n, name,
                find_unsigned(ars[1], ars[1].nodes[n + 1], name).ar, "")

\* nodes[n].find_string(name, ret)
FindString(n, name) ==
    /\ n < Len(ars[1].nodes)
    /\ \E r \in {find_string(ars[1], ars[1].nodes[n + 1], name)} :
          LookedUp("find_string", n, name, r.ar, r.exc)

\* nodes[n].find_ex(name, ret, sym_lst, index)
FindEx(n, name, index) ==
    /\ n < Len(ars[1].nodes)
    /\ \E r \in {find_ex(state(1), n, name, full_sym_lst(heap, 1), index, Len(ars[1].nodes))} :
          /\ r.heap = heap
          /\ LookedUp("find_ex", n, name, r.ar, r.exc)

\* nodes[n].find_ex_node(name, index)
FindExNode(n, name, index) ==
    /\ n < Len(ars[1].nodes)
    /\ \E r \in {find_ex_node(ars[1], ars[1].nodes[n + 1], name, index)} :
          LookedUp("find_ex_node", n, name, r.ar, r.exc)

NextLookup ==
    \/ \E e \in 1..Len(heap) : ArchiveEx(1, e, str_empty)
    \/ \E name \in LookupNames, ub \in UBOutcomes : LookupEx(name, ub)
    \/ \E n \in 0..(MaxHeap - 1), name \in LookupNames : FindBool(n, name)
    \/ \E n \in 0..(MaxHeap - 1), name \in LookupNames : FindUnsigned(n, name)
    \/ \E n \in 0..(MaxHeap - 1), name \in LookupNames : FindString(n, name)
    \/ \E n \in 0..(MaxHeap - 1), name \in LookupNames, index \in 0..1 : FindEx(n, name, index)
    \/ \E n \in 0..(MaxHeap - 1), name \in LookupNames, index \in 0..1 :
          FindExNode(n, name, index)

SpecLookup == InitReplace /\ [][NextLookup]_vars

----------------------------------------------------------------------------
(* Streams that were not written by operator<<: the reader takes whatever   *)
(* header, counts and ids the bytes hold.                                   *)

unread_node(props) == [props |-> props, has_expression |-> FALSE, e |-> 0]

\* The tables of the archive of the symbol x under the name ""
ForeignOk ==
    [atoms |-> <<str_class, str_symbol, str_name, str_x, str_serial, str_empty>>,
     exprs |-> << [name |-> 5, root |-> 0] >>,
     nodes |-> << unread_node(<< property(0, PTYPE_STRING, 1),
                                 property(2, PTYPE_STRING, 3),
                                 property(4, PTYPE_UNSIGNED, 1) >>) >>]

\* The tables of the archive of the list of x, under the name ""
ForeignLst ==
    [atoms |-> <<str_class, str_lst, str_seq, str_symbol, str_name, str_x, str_serial,
                 str_empty>>,
     exprs |-> << [name |-> 7, root |-> 1] >>,
     nodes |-> << unread_node(<< property(0, PTYPE_STRING, 3),
                                 property(4, PTYPE_STRING, 5),
                                 property(6, PTYPE_UNSIGNED, 1) >>),
                  unread_node(<< property(0, PTYPE_STRING, 1),
                                 property(2, PTYPE_NODE, 0) >>) >>]

\* Ids a foreign stream may hold where an id of one of the tables above is
\* expected: 0 is valid, 2 and 200 are not (200 takes two bytes).
ForeignIds == {0, 2, 200}

ForeignTables ==
    { [ForeignOk EXCEPT !.exprs[1].root = r] : r \in ForeignIds }          \* root node ids
    \cup { [ForeignOk EXCEPT !.exprs[1].name = 5 + n] : n \in ForeignIds }  \* name atoms
    \cup { [ForeignOk EXCEPT !.nodes[1].props[2].value = 3 + n] : n \in ForeignIds }
    \cup { [ForeignLst EXCEPT !.nodes[2].props[2].value = n] : n \in ForeignIds }
    \cup { [ForeignOk EXCEPT !.atoms = Append(@, str_x)],                   \* an atom twice
           [ForeignOk EXCEPT !.nodes[1].props = Tail(@)],                   \* no class
           empty_archive }

\* Signatures: the right one, and one wrong byte in each place
ForeignSignatures ==
    { Signature } \cup { [Signature EXCEPT ![k] = 88] : k \in 1..4 }

\* Versions: in the window, next to it on both sides, and far away
ForeignVersions ==
    { ARCHIVE_VERSION - ARCHIVE_AGE - 1, ARCHIVE_VERSION - ARCHIVE_AGE, ARCHIVE_VERSION,
      ARCHIVE_VERSION + 1, 128, 2147483647 }

\* The archive the stream is read into: empty, or holding an earlier read
Targets == { empty_archive, ForeignLst }

InitForeign ==
    /\ KernelIdle
    /\ heap = <<sym_x, sym_y, lst_node(<<1, 2>>)>>
    /\ nextSerial = Cardinality(Symbols) + 1
    /\ evalOrder = "ltr"
    /\ \E target \in Targets : ars = [i \in ArchiveIds |-> IF i = 2 THEN target ELSE empty_archive]
    /\ phase = "written"
    /\ last = [op |-> "none"]
    /\ varint = varint0
    /\ world = world0
    /\ \E sig \in ForeignSignatures, version \in ForeignVersions, tables \in ForeignTables :
          /\ sig # Signature \/ version # ARCHIVE_VERSION => tables = ForeignOk
          /\ stream = sig \o write_unsigned(W(version)) \o write_tables(tables)
          /\ ghost = [ghost0 EXCEPT !.written = TRUE, !.clean = [i \in ArchiveIds |-> FALSE],
                                    !.built = [i \in ArchiveIds |-> FALSE],
                                    !.header = [sig |-> sig, version |-> version]]

NextForeign ==
    \/ \E junk \in JunkBytes : Read(2, junk)
    \/ \E name \in ExprNames, ub \in UBOutcomes :
          \E sym_lst \in SymLsts(heap) : UnarchiveExName(2, sym_lst, name, ub)
    \/ \E index \in 0..1, ub \in UBOutcomes :
          \E sym_lst \in SymLsts(heap) : UnarchiveExIndex(2, sym_lst, index, ub)
    \/ \E index \in 0..1, ub \in UBOutcomes :
          \E sym_lst \in SymLsts(heap) : UnarchiveExNamedIndex(2, sym_lst, index, ub)
    \/ \E index \in 0..1, ub \in UBOutcomes : GetTopNode(2, index, ub)
    \/ \E id \in ForeignIds : GetNode(2, id)
    \/ \E id \in ForeignIds : Unatomize(2, id)

SpecForeign == InitForeign /\ [][NextForeign]_vars

----------------------------------------------------------------------------
(* The cache of the nodes: an archive that was read from a stream, whose    *)
(* nodes are unarchived directly, through unarchive_ex and through find_ex  *)
(* of a parent, and forgotten.                                              *)

MaxRuns == 3    \* calls of the instantiation function of one node between two forgets

\* The node of the symbol x, as it is read
x_node ==
    unread_node(<< property(0, PTYPE_STRING, 3), property(4, PTYPE_STRING, 5),
                   property(6, PTYPE_UNSIGNED, 1) >>)

\* The node of a list, as it is read, with the nodes children for children
lst_read(children) ==
    unread_node(<< property(0, PTYPE_STRING, 1) >>
                \o [i \in 1..Len(children) |-> property(2, PTYPE_NODE, children[i])])

\* The tables of lst(lst(x, x), x) under the name ""
CacheShared ==
    [atoms |-> <<str_class, str_lst, str_seq, str_symbol, str_name, str_x, str_serial,
                 str_empty>>,
     exprs |-> << [name |-> 7, root |-> 2] >>,
     nodes |-> << x_node, lst_read(<<0, 0>>), lst_read(<<1, 0>>) >>]

\* Tables as a stream can hold them: the list above; a list whose second
\* child is a node that is not there; a list whose second child has a class
\* that is not registered
CacheTables ==
    { CacheShared,
      [CacheShared EXCEPT !.nodes = << x_node, lst_read(<<0, 3>>), lst_read(<<0, 1>>) >>],
      [CacheShared EXCEPT !.nodes = << x_node,
                                       unread_node(<< property(0, PTYPE_STRING, 5) >>),
                                       lst_read(<<0, 1>>) >>] }

CacheNodes == 0..2

\* The archive ar with a log of the calls of instantiation functions
logged(ar) == [runs |-> <<>>] @@ ar

InitCache ==
    /\ KernelIdle
    /\ heap = <<sym_x>>
    /\ nextSerial = Cardinality(Symbols) + 1
    /\ evalOrder = "ltr"
    /\ \E tables \in CacheTables :
          ars = [i \in ArchiveIds |-> IF i = 1 THEN logged(tables) ELSE empty_archive]
    /\ stream = <<>>
    /\ phase = "direct"
    /\ last = [op |-> "none", n |-> 0, exc |-> "", val |-> 0, runs |-> <<>>,
               total |-> [k \in CacheNodes |-> 0], done |-> [k \in CacheNodes |-> 0],
               before |-> <<>>]
    /\ ghost = ghost0
    /\ varint = varint0
    /\ world = world0

\* The calls of the instantiation function of node k that the log runs has,
\* and the returns
calls(runs, k) == Cardinality({ j \in 1..Len(runs) : runs[j].id = k /\ ~runs[j].ok })

returns(runs, k) == Cardinality({ j \in 1..Len(runs) : runs[j].id = k /\ runs[j].ok })

\* What an unarchive leaves behind: r is what the call gave, r.ar.runs the
\* log of its calls of instantiation functions
Cached(op, n, r) ==
    /\ Len(r.heap) <= MaxHeap
    /\ r.serial <= MaxSerial
    /\ \A k \in CacheNodes : last.total[k] + calls(r.ar.runs, k) <= MaxRuns
    /\ heap' = r.heap
    /\ nextSerial' = r.serial
    /\ ars' = [ars EXCEPT ![1] = [r.ar EXCEPT !.runs = <<>>]]
    /\ last' = [op |-> op, n |-> n, exc |-> r.exc, val |-> r.val, runs |-> r.ar.runs,
                total |-> [k \in CacheNodes |-> last.total[k] + calls(r.ar.runs, k)],
                done |-> [k \in CacheNodes |-> last.done[k] + returns(r.ar.runs, k)],
                before |-> ars[1].nodes]
    /\ UNCHANGED <<kernel, varint, world, evalOrder, stream, phase, ghost>>

\* unarchive_ex(sym_lst, 0)
CacheUnarchiveEx(sym_lst, ub) ==
    \E r \in {unarchive_ex_index(state(1), sym_lst, 0, ub)} :
        Cached("unarchive_ex", ars[1].exprs[1].root, r)

\* get_node(id).unarchive(sym_lst)
CacheUnarchive(id, sym_lst) ==
    \E r \in {node_unarchive(state(1), id, sym_lst, Len(ars[1].nodes))} :
        Cached("unarchive", id, r)

\* get_node(id).find_ex("seq", ret, sym_lst, index), for a child that is there
CacheFindEx(id, index, sym_lst) ==
    \E p \in {find_prop(ars[1].nodes[id + 1].props, PTYPE_NODE, 2, index)} :
        /\ p # 0
        /\ ars[1].nodes[id + 1].props[p].value < Len(ars[1].nodes)
        /\ \E r \in {find_ex(state(1), id, str_seq, sym_lst, index, Len(ars[1].nodes))} :
              Cached("find_ex", ars[1].nodes[id + 1].props[p].value, r)

\* forget()
CacheForget ==
    /\ last.op # "forget"
    /\ ars' = [ars EXCEPT ![1] = forget(ars[1])]
    /\ last' = [op |-> "forget", n |-> 0, exc |-> "", val |-> 0, runs |-> <<>>,
                total |-> [k \in CacheNodes |-> 0], done |-> [k \in CacheNodes |-> 0],
                before |-> ars[1].nodes]
    /\ UNCHANGED <<kernel, varint, world, heap, nextSerial, evalOrder, stream, phase, ghost>>

NextCache ==
    \/ \E sym_lst \in SymLsts(heap), ub \in UBOutcomes : CacheUnarchiveEx(sym_lst, ub)
    \/ \E id \in CacheNodes, sym_lst \in SymLsts(heap) : CacheUnarchive(id, sym_lst)
    \/ \E id \in CacheNodes, index \in 0..1, sym_lst \in SymLsts(heap) :
          CacheFindEx(id, index, sym_lst)
    \/ CacheForget

SpecCache == InitCache /\ [][NextCache]_vars

----------------------------------------------------------------------------
(* Streams that end early: what operator<< writes for an archive, cut off   *)
(* after any number of bytes.                                               *)

\* The tables of the archive of x whose node has lost its "class" property
ForeignNoClass == [ForeignOk EXCEPT !.nodes[1].props = Tail(@)]

\* The archives whose streams are cut off
TruncatedTables == { ForeignOk, ForeignLst }

InitTruncated ==
    /\ KernelIdle
    /\ heap = <<sym_x, sym_y, lst_node(<<1, 2>>)>>
    /\ nextSerial = Cardinality(Symbols) + 1
    /\ evalOrder = "ltr"
    /\ ars = [i \in ArchiveIds |-> empty_archive]
    /\ phase = "written"
    /\ last = [op |-> "none"]
    /\ varint = varint0
    /\ world = world0
    /\ ghost = [ghost0 EXCEPT !.written = TRUE, !.built = [i \in ArchiveIds |-> FALSE]]
    /\ \/ \E tables \in TruncatedTables :
             \E whole \in {write_archive(tables)} :
                \E n \in 0..(Len(whole) - 1) : stream = SubSeq(whole, 1, n)
       \/ stream = write_archive(ForeignNoClass)

NextTruncated ==
    \/ \E junk \in JunkBytes : Read(2, junk)
    \/ \E name \in ExprNames, ub \in UBOutcomes :
          \E sym_lst \in SymLsts(heap) : UnarchiveExName(2, sym_lst, name, ub)

SpecTruncated == InitTruncated /\ [][NextTruncated]_vars

----------------------------------------------------------------------------
(* Unsigned ints on a stream: write_unsigned and read_unsigned called one   *)
(* after another, as operator<< and operator>> call them.                  *)

\* How many unsigned ints are written to one stream
MaxVals == 2

\* The unsigned ints that are written: 0, the values next to every change of
\* the number of 7-bit groups and of the 16-bit half, and mixed bit patterns
VarintValues ==
    { W(n) : n \in {0, 1, 127, 128, 255, 256, 16383, 16384, 65535, 65536,
                    2097151, 2097152, 268435455, 268435456, 305419896, 2147483647} }
    \cup { [hi |-> 32768, lo |-> 0], [hi |-> 43690, lo |-> 43690],
           [hi |-> 65535, lo |-> 65534], [hi |-> 65535, lo |-> 65535] }

InitVarint ==
    /\ KernelIdle
    /\ heap = <<>>
    /\ nextSerial = 1
    /\ evalOrder = "ltr"
    /\ ars = [i \in ArchiveIds |-> empty_archive]
    /\ stream = <<>>
    /\ phase = "build"
    /\ last = [op |-> "none"]
    /\ ghost = ghost0
    /\ varint = varint0
    /\ world = world0

\* write_unsigned(os, val), before anything is read back
WriteUnsigned(val) ==
    /\ Len(varint.vals) < MaxVals
    /\ varint.got = <<>>
    /\ stream' = stream \o write_unsigned(val)
    /\ varint' = [varint EXCEPT !.vals = Append(@, val), !.ends = Append(@, Len(stream'))]
    /\ UNCHANGED <<kernel, heap, nextSerial, evalOrder, ars, phase, last, ghost, world>>

\* read_unsigned(is) on the stream as far as it was read
ReadUnsigned(junk) ==
    /\ Len(varint.got) < Len(varint.vals)
    /\ LET u == read_unsigned(stream, varint.r, junk)
       IN  varint' = [varint EXCEPT !.r = u.r,
                                    !.got = Append(@, [val |-> u.val, status |-> u.status,
                                                       pos |-> u.r.pos, good |-> u.r.good])]
    /\ UNCHANGED <<kernel, heap, nextSerial, evalOrder, ars, stream, phase, last, ghost, world>>

NextVarint ==
    \/ \E val \in VarintValues : WriteUnsigned(val)
    \/ \E junk \in JunkBytes : ReadUnsigned(junk)

SpecVarint == InitVarint /\ [][NextVarint]_vars

----------------------------------------------------------------------------
(* Handles as a state machine: the user's program constructs, copies,       *)
(* assigns and destroys its handles, and calls the mutating member          *)
(* functions of the node a handle points to.                               *)

\* The longest seq a list grows to
MaxSeq == 3

\* How many nodes there are at most
MaxNodes == 6

\* How many calls of mutating member functions there are
MaxMutations == 1

\* lst(lst(a, b), a), held by the first handle
ListWorld ==
    [world0 EXCEPT
        !.node = @ \o <<basic_node("symbol", 2, <<>>, 0, 0),
                         basic_node("symbol", 1, <<>>, 0, 0),
                         basic_node("lst", 1, <<2, 3>>, 0, 0),
                         basic_node("lst", 1, <<4, 2>>, 0, 0)>>,
        !.slot[1] = 5]

\* the 2 x 2 matrix [[a, 0], [0, a]], held by the first handle
MatrixWorld ==
    [world0 EXCEPT
        !.node = <<basic_node("numeric", 3, <<>>, 0, 0),
                   basic_node("symbol", 2, <<>>, 0, 0),
                   basic_node("matrix", 1, <<2, 1, 1, 2>>, 2, 2)>>,
        !.slot[1] = 3]

Worlds == {ListWorld, MatrixWorld}

InitHandle ==
    /\ KernelIdle
    /\ heap = <<>>
    /\ nextSerial = 1
    /\ evalOrder = "ltr"
    /\ ars = [i \in ArchiveIds |-> empty_archive]
    /\ stream = <<>>
    /\ phase = "build"
    /\ last = [op |-> "none"]
    /\ ghost = ghost0
    /\ varint = varint0
    /\ world \in Worlds

\* The handles there are: those of the user's program that are constructed,
\* and those owned by the nodes
Refs(w) ==
    { slot_ref(k) : k \in { j \in Slots : w.slot[j] # 0 } }
    \cup UNION { { child_ref(n, i) : i \in 0..(Len(w.node[n].seq) - 1) } :
                  n \in { m \in 1..Len(w.node) : ~w.node[m].deleted } }

Handled(w) ==
    /\ world' = w
    /\ UNCHANGED <<kernel, heap, nextSerial, evalOrder, ars, stream, phase, last, ghost, varint>>

ExDefault(k) ==
    /\ world.slot[k] = 0
    /\ Handled(ex_default(world, k))

ExCopy(k, other) ==
    /\ world.slot[k] = 0
    /\ Handled(ex_copy(world, k, bp(world, other)))

ExAssign(k, other) ==
    /\ world.slot[k] # 0
    /\ Handled(ex_assign(world, slot_ref(k), bp(world, other)))

ExDtor(k) ==
    /\ world.slot[k] # 0
    /\ Handled(ex_dtor(world, k))

NextHandle ==
    \/ \E k \in Slots : ExDefault(k)
    \/ \E k \in Slots : \E other \in Refs(world) : ExCopy(k, other)
    \/ \E k \in Slots : \E other \in Refs(world) : ExAssign(k, other)
    \/ \E k \in Slots : ExDtor(k)

SpecHandle == InitHandle /\ [][NextHandle]_vars

\* A mutating member function is called on the node of the k-th handle
Mutating(k, kind) ==
    /\ world.slot[k] # 0
    /\ world.node[world.slot[k]].kind = kind
    /\ world.mutations < MaxMutations

Mutated(w) == Handled([w EXCEPT !.mutations = @ + 1])

LstAppend(k, other) ==
    /\ Mutating(k, "lst")
    /\ Len(world.node[world.slot[k]].seq) < MaxSeq
    /\ Mutated(append(world, world.slot[k], bp(world, other)).w)

LstPrepend(k, other) ==
    /\ Mutating(k, "lst")
    /\ Len(world.node[world.slot[k]].seq) < MaxSeq
    /\ Mutated(prepend(world, world.slot[k], bp(world, other)).w)

\* bp->let_op(i) = other, on the node of the k-th handle
LstLetOpAssign(k, i, other) ==
    /\ Mutating(k, "lst")
    /\ i < Len(world.node[world.slot[k]].seq)
    /\ Mutated(ex_assign(world, let_op(world, world.slot[k], i), bp(world, other)))

MatrixSet(k, ro, co, other) ==
    /\ Mutating(k, "matrix")
    /\ Mutated(matrix_set(world, world.slot[k], ro, co, bp(world, other)).w)

MatrixLetOpAssign(k, i, other) ==
    /\ Mutating(k, "matrix")
    /\ i < Len(world.node[world.slot[k]].seq)
    /\ Mutated(ex_assign(world, matrix_let_op(world, world.slot[k], i), bp(world, other)))

\* let_op(i) = other, on the k-th handle
ExLetOpAssign(k, i, other) ==
    /\ world.slot[k] # 0
    /\ world.node[world.slot[k]].kind \in {"lst", "matrix"}
    /\ world.mutations < MaxMutations
    /\ Len(world.node) < MaxNodes
    /\ i < Len(world.node[world.slot[k]].seq)
    /\ LET l == ex_let_op(world, k, i)
       IN  Mutated(ex_assign(l.w, l.ref, bp(world, other)))

NextShare ==
    \/ NextHandle
    \/ \E k \in Slots : \E other \in Refs(world) : LstAppend(k, other)
    \/ \E k \in Slots : \E other \in Refs(world) : LstPrepend(k, other)
    \/ \E k \in Slots, i \in 0..(MaxSeq - 1) : \E other \in Refs(world) :
          LstLetOpAssign(k, i, other)
    \/ \E k \in Slots, ro \in -1..2, co \in -1..2 : \E other \in Refs(world) :
          MatrixSet(k, ro, co, other)
    \/ \E k \in Slots, i \in 0..3 : \E other \in Refs(world) :
          MatrixLetOpAssign(k, i, other)
    \/ \E k \in Slots, i \in 0..3 : \E other \in Refs(world) :
          ExLetOpAssign(k, i, other)

SpecShare == InitHandle /\ [][NextShare]_vars

----------------------------------------------------------------------------
(* Access to the elements of a matrix and of a list: the user's program     *)
(* constructs, copies, assigns and destroys its handles and then calls one  *)
(* of operator(), set and let_op on the node of a handle.  last holds the   *)
(* call, what it threw, the handle it returned and the world before it.    *)

\* The largest row, column and flat index a call is made with: one behind
\* those of a 2 x 2 matrix
MaxIndex == 2
MaxFlat == 4

\* The indices a call is made with, one of them below 0
Indices == -1..MaxIndex
FlatIndices == -1..MaxFlat

Accessed(op, n, ro, co, i, value, r, w) ==
    /\ last' = [op |-> op, n |-> n, ro |-> ro, co |-> co, i |-> i, value |-> value,
                exc |-> r.exc, ref |-> r.ref, before |-> world]
    /\ world' = w
    /\ UNCHANGED <<kernel, heap, nextSerial, evalOrder, ars, stream, phase, ghost, varint>>

\* A member function is called on the node of the k-th handle
Accessing(k, kind) ==
    /\ last.op = "none"
    /\ world.slot[k] # 0
    /\ world.node[world.slot[k]].kind = kind

\* (*bp)(ro, co) on the matrix of the k-th handle
MatrixOperatorCall(k, ro, co) ==
    /\ Accessing(k, "matrix")
    /\ Accessed("operator()", world.slot[k], ro, co, 0, 0,
                matrix_operator_call(world, world.slot[k], ro, co), world)

\* bp->set(ro, co, other) on the matrix of the k-th handle
MatrixSetElement(k, ro, co, other) ==
    /\ Accessing(k, "matrix")
    /\ \E r \in {matrix_set(world, world.slot[k], ro, co, bp(world, other))} :
          Accessed("set", world.slot[k], ro, co, 0, bp(world, other),
                   [exc |-> r.exc, ref |-> no_ref], r.w)

\* bp->let_op(i) on the matrix of the k-th handle
MatrixLetOp(k, i, ub) ==
    /\ Accessing(k, "matrix")
    /\ Accessed("matrix::let_op", world.slot[k], 0, 0, i, 0,
                matrix_let_op_any(world, world.slot[k], i, ub), world)

\* bp->let_op(i) on the list of the k-th handle
LstLetOp(k, i, doassert, ub) ==
    /\ Accessing(k, "lst")
    /\ Accessed("lst::let_op", world.slot[k], 0, 0, i, 0,
                let_op_any(world, world.slot[k], i, doassert, ub), world)

\* The handles before the call
Handles ==
    /\ last.op = "none"
    /\ NextHandle

NextAccess ==
    \/ Handles
    \/ \E k \in Slots, ro \in Indices, co \in Indices :
          MatrixOperatorCall(k, ro, co)
    \/ \E k \in Slots, ro \in Indices, co \in Indices :
          \E other \in Refs(world) : MatrixSetElement(k, ro, co, other)
    \/ \E k \in Slots, i \in FlatIndices, ub \in UBOutcomes : MatrixLetOp(k, i, ub)
    \/ \E k \in Slots, i \in FlatIndices, doassert \in BOOLEAN, ub \in UBOutcomes :
          LstLetOp(k, i, doassert, ub)

SpecAccess == InitHandle /\ [][NextAccess]_vars

----------------------------------------------------------------------------
(* A program that computes with sums and products: three expressions x, y, *)
(* z, each a symbol or a small integer at first, and each step assigns to   *)
(* one of them the sum or the product of two of them.                       *)

Leaves == { symbol(1), symbol(2), numeric(-1), numeric(0), numeric(1), numeric(2) }

InitSum ==
    /\ heap = <<>>
    /\ nextSerial = 1
    /\ evalOrder = "ltr"
    /\ ars = [i \in ArchiveIds |-> empty_archive]
    /\ stream = <<>>
    /\ phase = "build"
    /\ last = [op |-> "none"]
    /\ ghost = ghost0
    /\ varint = varint0
    /\ world = world0
    /\ mat = [M |-> matrix(0, 0, <<>>, FALSE), last |-> [op |-> "none"]]
    /\ tree = [chain |-> <<>>, last |-> [op |-> "none"]]
    /\ \E x \in Leaves, y \in Leaves, z \in Leaves, distribute \in BOOLEAN :
          terms = [ex |-> <<x, y, z>>, ops |-> 0, distribute |-> distribute]

\* terms.ex[k] = terms.ex[i] + terms.ex[j]
OperatorAdd(i, j, k) ==
    /\ terms.ops < MaxOps
    /\ terms' = [terms EXCEPT !.ex[k] = operator_add(terms.distribute, terms.ex[i], terms.ex[j]),
                               !.ops = @ + 1]
    /\ UNCHANGED <<heap, nextSerial, evalOrder, ars, stream, phase, last, ghost, varint, world, mat, tree>>

\* terms.ex[k] = terms.ex[i] * terms.ex[j]
OperatorMul(i, j, k) ==
    /\ terms.ops < MaxOps
    /\ terms' = [terms EXCEPT !.ex[k] = operator_mul(terms.distribute, terms.ex[i], terms.ex[j]),
                               !.ops = @ + 1]
    /\ UNCHANGED <<heap, nextSerial, evalOrder, ars, stream, phase, last, ghost, varint, world, mat, tree>>

NextSum ==
    \/ \E i \in DOMAIN terms.ex, j \in DOMAIN terms.ex, k \in DOMAIN terms.ex : OperatorAdd(i, j, k)
    \/ \E i \in DOMAIN terms.ex, j \in DOMAIN terms.ex, k \in DOMAIN terms.ex : OperatorMul(i, j, k)

SpecSum == InitSum /\ [][NextSum]_vars

----------------------------------------------------------------------------
(* A program that holds a square matrix M and calls determinant, inverse    *)
(* and solve on it.                                                          *)

Elements == { <<0, 1>>, <<1, 1>>, <<2, 1>> }

Bits == { <<0, 1>>, <<1, 1>> }

\* The n x p matrices with elements from S
Matrices(n, p, S) == { matrix(n, p, m, FALSE) : m \in [1..(n * p) -> S] }

\* The square matrices of n rows the program starts with: all with elements
\* from Elements up to MaxDim rows, all with elements 0 and 1 above, and of
\* those with MaxBits rows the ones whose first column is all 1.
Squares(n) ==
    IF n <= MaxDim THEN Matrices(n, n, Elements)
    ELSE IF n < MaxBits THEN Matrices(n, n, Bits)
    ELSE { matrix(n, n, [i \in 1..(n * n) |->
                            IF (i - 1) % n = 0 THEN <<1, 1>>
                            ELSE rest[((i - 1) \div n) * (n - 1) + ((i - 1) % n)]], FALSE) :
              rest \in [1..(n * (n - 1)) -> Bits] }

InitMatrix ==
    /\ heap = <<>>
    /\ nextSerial = 1
    /\ evalOrder = "ltr"
    /\ ars = [i \in ArchiveIds |-> empty_archive]
    /\ stream = <<>>
    /\ phase = "build"
    /\ last = [op |-> "none"]
    /\ ghost = ghost0
    /\ varint = varint0
    /\ world = world0
    /\ terms = [ex |-> <<>>, ops |-> 0, distribute |-> FALSE]
    /\ tree = [chain |-> <<>>, last |-> [op |-> "none"]]
    /\ \E n \in 1..MaxBits : \E M \in Squares(n) : mat = [M |-> M, last |-> [op |-> "none"]]

\* M.determinant(normalized), the elements of M being symbols that hold
\* the values (symbolic) or numerics
Determinant(symbolic, normalized) ==
    /\ mat.last.op = "none"
    /\ mat' = [mat EXCEPT !.last = [op |-> "determinant", symbolic |-> symbolic,
                                    normalized |-> normalized,
                                    r |-> determinant([mat.M EXCEPT !.symbolic = symbolic],
                                                      normalized)]]
    /\ UNCHANGED <<heap, nextSerial, evalOrder, ars, stream, phase, last, ghost, varint, world, terms, tree>>

\* M.inverse()
Inverse ==
    /\ mat.last.op = "none"
    /\ mat.M.row < MaxBits
    /\ mat' = [mat EXCEPT !.last = [op |-> "inverse", r |-> inverse(mat.M)]]
    /\ UNCHANGED <<heap, nextSerial, evalOrder, ars, stream, phase, last, ghost, varint, world, terms, tree>>

\* M.solve(v)
Solve(v) ==
    /\ mat.last.op = "none"
    /\ mat.M.row < MaxBits
    /\ mat' = [mat EXCEPT !.last = [op |-> "solve", v |-> v, r |-> solve(mat.M, v)]]
    /\ UNCHANGED <<heap, nextSerial, evalOrder, ars, stream, phase, last, ghost, varint, world, terms, tree>>

NextMatrix ==
    \/ \E symbolic \in BOOLEAN, normalized \in BOOLEAN : Determinant(symbolic, normalized)
    \/ Inverse
    \/ \E p \in 1..2 :
          \E v \in Matrices(mat.M.row, p, IF mat.M.row <= MaxDim THEN Elements ELSE Bits) :
             Solve(v)

SpecMatrix == InitMatrix /\ [][NextMatrix]_vars

----------------------------------------------------------------------------
(* lsolve: linear systems.  An expression is a polynomial of degree up to 2  *)
(* in the symbols x and y with rational coefficients, held as the sequence  *)
(* of the coefficients of 1, x, y, x^2, x*y, y^2; a symbol is 1 (x) or 2    *)
(* (y).                                                                      *)

MaxEqns == 3     \* equations of a system

poly_zero == [t \in 1..6 |-> <<0, 1>>]

\* The numeric q, and the symbol s, as expressions
poly_numeric(q) == [poly_zero EXCEPT ![1] = q]

poly_symbol(s) == [poly_zero EXCEPT ![s + 1] = <<1, 1>>]

poly_add(lh, rh) == [t \in 1..6 |-> ex_add(lh[t], rh[t])]

poly_sub(lh, rh) == [t \in 1..6 |-> ex_sub(lh[t], rh[t])]

poly_is_zero(e) == \A t \in 1..6 : is_zero(e[t])

poly_is_numeric(e) == \A t \in 2..6 : is_zero(e[t])

\* lh * rh, one of the two a numeric
poly_mul(lh, rh) ==
    IF poly_is_numeric(lh)
    THEN [t \in 1..6 |-> ex_mul(lh[1], rh[t])]
    ELSE [t \in 1..6 |-> ex_mul(lh[t], rh[1])]

\* lh / rh, rh a numeric other than 0
poly_div(lh, rh) == [t \in 1..6 |-> ex_div(lh[t], rh[1])]

\* e * s for the symbol s, e of degree up to 1
poly_times_symbol(e, s) ==
    IF s = 1
    THEN << <<0, 1>>, e[1], <<0, 1>>, e[2], e[3], <<0, 1>> >>
    ELSE << <<0, 1>>, <<0, 1>>, e[1], <<0, 1>>, e[2], e[3] >>

\* e.coeff(s, 1): the coefficient of s^1 in e, an expression without s
poly_coeff(e, s) ==
    IF s = 1
    THEN << e[2], <<0, 1>>, e[5], <<0, 1>>, <<0, 1>>, <<0, 1>> >>
    ELSE << e[3], e[5], <<0, 1>>, <<0, 1>>, <<0, 1>>, <<0, 1>> >>

\* e.has(s)
poly_has(e, s) ==
    IF s = 1
    THEN ~is_zero(e[2]) \/ ~is_zero(e[4]) \/ ~is_zero(e[5])
    ELSE ~is_zero(e[3]) \/ ~is_zero(e[5]) \/ ~is_zero(e[6])

\* matrix::ffe_get(r, c) and ffe_set(r, c, e), rows and columns from 1
ffe_get(M, r, c) == M.m[(r - 1) * M.col + c]

ffe_set(M, r, c, e) == [M EXCEPT !.m[(r - 1) * M.col + c] = e]

\* The rows p and r of M exchanged in the columns j and up
ffe_swap_rows(M, p, r, j) ==
    [M EXCEPT !.m = [i \in 1..Len(M.m) |->
        IF ((i - 1) % M.col) + 1 >= j /\ ((i - 1) \div M.col) + 1 = p
        THEN ffe_get(M, r, ((i - 1) % M.col) + 1)
        ELSE IF ((i - 1) % M.col) + 1 >= j /\ ((i - 1) \div M.col) + 1 = r
        THEN ffe_get(M, p, ((i - 1) % M.col) + 1)
        ELSE M.m[i]]]

\* The elimination below row r with the right-hand side left as it is
ffe_eliminate_rhs_kept(a, b, r, k, divisor) ==
    [a |-> [a EXCEPT !.m = [i \in 1..Len(a.m) |->
               LET ro == ((i - 1) \div a.col) + 1
                   co == ((i - 1) % a.col) + 1
               IN  IF ro > r /\ co > k
                   THEN poly_div(poly_sub(poly_mul(ffe_get(a, r, k), ffe_get(a, ro, co)),
                                          poly_mul(ffe_get(a, r, co), ffe_get(a, ro, k))),
                                 divisor)
                   ELSE IF ro > r /\ co = k
                   THEN poly_zero
                   ELSE a.m[i]]],
     b |-> b]

\* The loop over the rows i = r+1 .. m of fraction_free_elim, with the pivot
\* in row r and column k: [a, b]
ffe_eliminate(a, b, r, k, divisor) ==
    [a |-> [a EXCEPT !.m = [i \in 1..Len(a.m) |->
               LET ro == ((i - 1) \div a.col) + 1
                   co == ((i - 1) % a.col) + 1
               IN  IF ro > r /\ co > k
                   THEN poly_div(poly_sub(poly_mul(ffe_get(a, r, k), ffe_get(a, ro, co)),
                                          poly_mul(ffe_get(a, r, co), ffe_get(a, ro, k))),
                                 divisor)
                   ELSE IF ro > r /\ co = k
                   THEN poly_zero
                   ELSE a.m[i]]],
     b |-> [b EXCEPT !.m = [i \in 1..Len(b.m) |->
               IF i > r
               THEN poly_div(poly_sub(poly_mul(ffe_get(a, r, k), ffe_get(b, i, 1)),
                                      poly_mul(ffe_get(b, r, 1), ffe_get(a, i, k))),
                             divisor)
               ELSE b.m[i]]]]

\* The search of a pivot in column k from row p on: the row, m + 1 for none
RECURSIVE ffe_pivot(_, _, _)
ffe_pivot(a, p, k) ==
    IF p <= a.row /\ poly_is_zero(ffe_get(a, p, k)) THEN ffe_pivot(a, p + 1, k) ELSE p

\* The reduction to upper echelon form, from column k and row r on: [a, b]
RECURSIVE ffe_reduce(_, _, _, _, _)
ffe_reduce(a, b, k, r, divisor) ==
    LET found(p) ==
            IF p > a.row
            THEN ffe_reduce(a, b, k + 1, r, divisor)
            ELSE LET swapped(a1, b1) ==
                         LET e == ffe_eliminate(a1, b1, r, k, divisor)
                         IN  ffe_reduce(e.a, e.b, k + 1, r + 1, ffe_get(a1, r, k))
                 IN  IF p # r
                     THEN swapped(ffe_swap_rows(a, p, r, k), ffe_swap_rows(b, p, r, 1))
                     ELSE swapped(a, b)
    IN  IF k <= a.col /\ r <= a.row THEN found(ffe_pivot(a, r, k)) ELSE [a |-> a, b |-> b]

\* The first column of row r that is not zero, n + 1 for none
RECURSIVE ffe_first_non_zero(_, _, _)
ffe_first_non_zero(a, r, c) ==
    IF c <= a.col /\ poly_is_zero(ffe_get(a, r, c)) THEN ffe_first_non_zero(a, r, c + 1) ELSE c

\* e - a(r, c) * sol(c) for the columns c .. n
RECURSIVE ffe_back(_, _, _, _, _)
ffe_back(a, sol, r, c, e) ==
    IF c > a.col
    THEN e
    ELSE ffe_back(a, sol, r, c + 1, poly_sub(e, poly_mul(ffe_get(a, r, c), ffe_get(sol, c, 1))))

\* sol with the variables of the rows from..to for their own solutions
ffe_free(sol, variables, from, to) ==
    [sol EXCEPT !.m = [c \in 1..Len(sol.m) |->
                          IF from <= c /\ c <= to THEN variables.m[c] ELSE sol.m[c]]]

\* The assembly of the solution from row r up: [exc, sol]
RECURSIVE ffe_assemble(_, _, _, _, _, _)
ffe_assemble(a, b, variables, r, sol, last_assigned_sol) ==
    LET row_of(first_non_zero) ==
            IF first_non_zero > a.col
            THEN IF ~poly_is_zero(ffe_get(b, r, 1))
                 THEN [exc |-> "runtime_error", sol |-> sol]
                 ELSE ffe_assemble(a, b, variables, r - 1, sol, last_assigned_sol)
            ELSE LET assigned(s1) ==
                         ffe_assemble(a, b, variables, r - 1,
                             ffe_set(s1, first_non_zero, 1,
                                 poly_div(ffe_back(a, s1, r, first_non_zero + 1,
                                                   ffe_get(b, r, 1)),
                                          ffe_get(a, r, first_non_zero))),
                             first_non_zero)
                 IN  assigned(ffe_free(sol, variables, first_non_zero + 1,
                                       last_assigned_sol - 1))
    IN  IF r = 0
        THEN [exc |-> "", sol |-> ffe_free(sol, variables, 1, last_assigned_sol - 1)]
        ELSE row_of(ffe_first_non_zero(a, r, 1))

\* matrix::fraction_free_elim(variables, rhs): [exc, sol]
fraction_free_elim(M, variables, rhs) ==
    LET reduced(e) ==
            ffe_assemble(e.a, e.b, variables, M.row,
                         matrix(M.col, 1, [c \in 1..M.col |-> poly_zero], FALSE), M.col + 1)
    IN  IF M.row # rhs.row \/ M.col # variables.row \/ rhs.col # variables.col
        THEN [exc |-> "logic_error", sol |-> M]
        ELSE reduced(ffe_reduce(M, rhs, 1, 1, poly_numeric(<<1, 1>>)))

\* The part of eq that is left when the terms of the symbols are taken away:
\* linpart -= co*symbols.op(c) for the symbols c and up
RECURSIVE lsolve_linpart(_, _, _, _)
lsolve_linpart(eq, symbols, c, linpart) ==
    IF c > Len(symbols)
    THEN linpart
    ELSE lsolve_linpart(eq, symbols, c + 1,
             poly_sub(linpart, poly_times_symbol(poly_coeff(eq, symbols[c]), symbols[c])))

\* lsolve(eqns, symbols) for a list of equations [lhs, rhs] and a list of
\* symbols: [exc, val], val the list of the relations [lhs, rhs] returned
lsolve(eqns, symbols) ==
    LET eq(r) == poly_sub(eqns[r].lhs, eqns[r].rhs)
        sys == matrix(Len(eqns), Len(symbols),
                      [i \in 1..(Len(eqns) * Len(symbols)) |->
                          poly_coeff(eq(((i - 1) \div Len(symbols)) + 1),
                                     symbols[((i - 1) % Len(symbols)) + 1])], FALSE)
        rhs == matrix(Len(eqns), 1,
                      [r \in 1..Len(eqns) |->
                          poly_sub(poly_zero, lsolve_linpart(eq(r), symbols, 1, eq(r)))], FALSE)
        variables == matrix(Len(symbols), 1, [i \in 1..Len(symbols) |-> poly_symbol(symbols[i])],
                       FALSE)
        solved(solution) ==
            IF solution.exc = "runtime_error"
            THEN [exc |-> "", val |-> <<>>]
            ELSE IF solution.exc # ""
            THEN [exc |-> solution.exc, val |-> <<>>]
            ELSE [exc |-> "",
                  val |-> [i \in 1..Len(symbols) |->
                             [lhs |-> symbols[i], rhs |-> ffe_get(solution.sol, i, 1)]]]
    IN  IF \E i \in 1..Len(symbols) :
              \/ \E t \in 1..Len(sys.m) : poly_has(sys.m[t], symbols[i])
              \/ \E t \in 1..Len(rhs.m) : poly_has(rhs.m[t], symbols[i])
        THEN [exc |-> "logic_error", val |-> <<>>]
        ELSE solved(fraction_free_elim(sys, variables, rhs))

\* The coefficients of the equations
Coeffs == { <<0 - 1, 1>>, <<0, 1>>, <<1, 1>>, <<2, 1>> }

\* The left-hand sides: c0 + c1*x + c2*y, and three that are not linear
LeftSides(S) ==
    { << c0, c1, c2, <<0, 1>>, <<0, 1>>, <<0, 1>> >> : c0 \in {<<0, 1>>}, c1 \in S, c2 \in S }
    \cup { << <<0, 1>>, <<1, 1>>, <<0, 1>>, <<1, 1>>, <<0, 1>>, <<0, 1>> >>,     \* x + x^2
           << <<0, 1>>, <<0, 1>>, <<1, 1>>, <<0, 1>>, <<1, 1>>, <<0, 1>> >>,     \* y + x*y
           << <<0, 1>>, <<1, 1>>, <<0, 1>>, <<0, 1>>, <<0, 1>>, <<1, 1>> >> }    \* x + y^2

\* The right-hand sides: numerics, and the symbol y
RightSides(S) == { poly_numeric(q) : q \in S } \cup { poly_symbol(2) }

\* The lists of symbols to solve for
SymbolLists == { <<1>>, <<1, 2>>, <<2, 1>> }

\* The coefficient of a symbol of the list is a numeric in every equation
numeric_coefficients(eqns, symbols) ==
    \A r \in 1..Len(eqns), i \in 1..Len(symbols) :
       \/ poly_is_numeric(poly_coeff(poly_sub(eqns[r].lhs, eqns[r].rhs), symbols[i]))
       \/ \E j \in 1..Len(symbols) :
             poly_has(poly_coeff(poly_sub(eqns[r].lhs, eqns[r].rhs), symbols[i]), symbols[j])

InitLsolve ==
    /\ heap = <<>>
    /\ nextSerial = 1
    /\ evalOrder = "ltr"
    /\ ars = [i \in ArchiveIds |-> empty_archive]
    /\ stream = <<>>
    /\ phase = "build"
    /\ last = [op |-> "none"]
    /\ ghost = ghost0
    /\ varint = varint0
    /\ world = world0
    /\ terms = [ex |-> <<>>, ops |-> 0, distribute |-> FALSE]
    /\ tree = [chain |-> <<>>, last |-> [op |-> "none"]]
    /\ \E n \in 1..MaxEqns, symbols \in SymbolLists :
          \E S \in {IF n < MaxEqns THEN Coeffs ELSE Bits} :
             \E lhs \in [1..n -> LeftSides(S)], rhs \in [1..n -> RightSides(S)] :
                /\ numeric_coefficients([r \in 1..n |-> [lhs |-> lhs[r], rhs |-> rhs[r]]], symbols)
                /\ mat = [eqns |-> [r \in 1..n |-> [lhs |-> lhs[r], rhs |-> rhs[r]]],
                          symbols |-> symbols, last |-> [op |-> "none"]]

\* lsolve(eqns, symbols)
Lsolve ==
    /\ mat.last.op = "none"
    /\ \E r \in {lsolve(mat.eqns, mat.symbols)} :
          mat' = [mat EXCEPT !.last = [op |-> "lsolve", exc |-> r.exc, val |-> r.val]]
    /\ UNCHANGED <<heap, nextSerial, evalOrder, ars, stream, phase, last, ghost, varint, world, terms, tree>>

NextLsolve == Lsolve

SpecLsolve == InitLsolve /\ [][NextLsolve]_vars

----------------------------------------------------------------------------
(* The order of the expressions: compare and is_equal of lists and          *)
(* matrices.  The nodes are those of a heap h, a handle is the address of   *)
(* its node, and the children of a node are handles.                        *)

\* A matrix of row x col elements, seq holding them row by row
matrix_node(row, col, m2) ==
    [kind |-> "matrix", name |-> <<>>, serial |-> 0, seq |-> m2, row |-> row, col |-> col]

\* The order of the classes (tinfo_key)
tinfo_rank(kind) ==
    CASE kind = "symbol" -> 1 [] kind = "lst" -> 2 [] kind = "matrix" -> 3

RECURSIVE ex_compare(_, _, _)

\* ${CONTAINER}::compare_same_type with a proper prefix taken for equal
compare_same_type_prefix_equal(h, a, b) ==
    LET RECURSIVE loop(_)
        loop(i) ==
            LET step(cmpval) == IF cmpval # 0 THEN cmpval ELSE loop(i + 1)
            IN  IF i <= Len(h[a].seq) /\ i <= Len(h[b].seq)
                THEN step(ex_compare(h, h[a].seq[i], h[b].seq[i]))
                ELSE 0
    IN  loop(1)

\* ${CONTAINER}::compare_same_type(other) for the lists a = this and b = other
compare_same_type(h, a, b) ==
    LET RECURSIVE loop(_)
        loop(i) ==
            LET step(cmpval) == IF cmpval # 0 THEN cmpval ELSE loop(i + 1)
            IN  IF i <= Len(h[a].seq) /\ i <= Len(h[b].seq)
                THEN step(ex_compare(h, h[a].seq[i], h[b].seq[i]))
                ELSE IF i > Len(h[a].seq)
                THEN (IF i > Len(h[b].seq) THEN 0 ELSE -1)
                ELSE 1
    IN  loop(1)

\* ${CONTAINER}::is_equal_same_type(other) for the lists a and b
is_equal_same_type(h, a, b) ==
    LET RECURSIVE loop(_)
        loop(i) ==
            IF i > Len(h[a].seq)
            THEN TRUE
            ELSE IF ~is_equal(h, h[a].seq[i], h[b].seq[i])
            THEN FALSE
            ELSE loop(i + 1)
    IN  IF Len(h[a].seq) # Len(h[b].seq) THEN FALSE ELSE loop(1)

\* matrix::compare_same_type(other) for the matrices a and b
matrix_compare_same_type(h, a, b) ==
    LET row == h[a].row
        col == h[a].col
        RECURSIVE loop(_)
        loop(i) ==
            LET step(cmpval) == IF cmpval # 0 THEN cmpval ELSE loop(i + 1)
            IN  IF i < row * col
                THEN step(ex_compare(h, h[a].seq[i + 1], h[b].seq[i + 1]))
                ELSE 0
    IN  IF row # h[b].row
        THEN (IF row < h[b].row THEN -1 ELSE 1)
        ELSE IF col # h[b].col
        THEN (IF col < h[b].col THEN -1 ELSE 1)
        ELSE loop(0)

\* basic::is_equal_same_type(other), which class matrix does not override
matrix_is_equal_same_type(h, a, b) == matrix_compare_same_type(h, a, b) = 0

\* symbol::compare_same_type(other): by serial
symbol_compare_same_type(h, a, b) ==
    IF h[a].serial < h[b].serial THEN -1 ELSE IF h[a].serial > h[b].serial THEN 1 ELSE 0

\* basic::compare(other): the classes, then compare_same_type of the class
basic_compare(h, a, b) ==
    IF h[a].kind # h[b].kind
    THEN (IF tinfo_rank(h[a].kind) < tinfo_rank(h[b].kind) THEN -1 ELSE 1)
    ELSE CASE h[a].kind = "symbol" -> symbol_compare_same_type(h, a, b)
           [] h[a].kind = "lst" -> compare_same_type(h, a, b)
           [] h[a].kind = "matrix" -> matrix_compare_same_type(h, a, b)

\* ex::compare(other) for the handles with bp = a and other.bp = b
ex_compare(h, a, b) == IF a = b THEN 0 ELSE basic_compare(h, a, b)

\* ex::is_equal(other) for the handles with bp = a and other.bp = b
ex_is_equal(h, a, b) ==
    IF a = b
    THEN TRUE
    ELSE IF h[a].kind # h[b].kind
    THEN FALSE
    ELSE IF h[a].kind = "matrix"
    THEN matrix_is_equal_same_type(h, a, b)
    ELSE IF h[a].kind = "lst"
    THEN is_equal_same_type(h, a, b)
    ELSE is_equal(h, a, b)

MaxArity == 2     \* elements of a list
NumLeaves == 3    \* symbol nodes of a heap

\* The sequences of up to MaxArity handles from S
Seqs(S) == UNION { [1..n -> S] : n \in 0..MaxArity }

\* The lists with elements from S
Lsts(S) == { lst_node(seq) : seq \in Seqs(S) }

\* The matrices of one and of two elements from S
SmallMatrices(S) ==
    { matrix_node(1, 1, <<e>>) : e \in S }
    \cup { matrix_node(1, 2, <<e, f>>) : e \in S, f \in S }
    \cup { matrix_node(2, 1, <<e, f>>) : e \in S, f \in S }

\* The handles of h a list can hold in this model: those of symbols and lists
listable(h) == { i \in 1..Len(h) : h[i].kind # "matrix" }

\* Two nodes of the symbol x and one of y
symbol_nodes == <<sym_x, sym_y, sym_x>>

\* The containers a program adds to the heap h: lists of what there is,
\* matrices of symbols
containers_over(h) == Lsts(listable(h)) \cup SmallMatrices({1, 2})

\* The containers of a heap
ContainerNodes == (NumLeaves + 1)..(NumLeaves + 3)

InitCompare ==
    /\ KernelIdle
    /\ \E n4 \in Lsts(1..NumLeaves) :
          \E n5 \in containers_over(symbol_nodes \o <<n4>>) :
             \E n6 \in containers_over(symbol_nodes \o <<n4, n5>>) :
                heap = symbol_nodes \o <<n4, n5, n6>>
    /\ nextSerial = 1
    /\ evalOrder = "ltr"
    /\ ars = [i \in ArchiveIds |-> empty_archive]
    /\ stream = <<>>
    /\ phase = "build"
    /\ last = [op |-> "none"]
    /\ ghost = ghost0
    /\ varint = varint0
    /\ world = world0

Compared(r) ==
    /\ last.op = "none"
    /\ last' = r
    /\ UNCHANGED <<kernel, heap, nextSerial, evalOrder, ars, stream, phase, ghost, varint, world>>

\* compare_same_type of the containers a and b of one class (0 otherwise)
same_type_compare(h, a, b) ==
    IF h[a].kind # h[b].kind
    THEN 0
    ELSE IF h[a].kind = "matrix"
    THEN matrix_compare_same_type(h, a, b)
    ELSE compare_same_type(h, a, b)

\* is_equal_same_type of the containers a and b of one class
same_type_is_equal(h, a, b) ==
    IF h[a].kind # h[b].kind
    THEN FALSE
    ELSE IF h[a].kind = "matrix"
    THEN matrix_is_equal_same_type(h, a, b)
    ELSE is_equal_same_type(h, a, b)

\* The handles of three nodes a, b and c are compared with one another
Compare(a, b, c) ==
    Compared([op |-> "compare", a |-> a, b |-> b, c |-> c,
              ab |-> ex_compare(heap, a, b), ba |-> ex_compare(heap, b, a),
              bc |-> ex_compare(heap, b, c), ac |-> ex_compare(heap, a, c),
              eq |-> ex_is_equal(heap, a, b),
              cst |-> same_type_compare(heap, a, b),
              iest |-> same_type_is_equal(heap, a, b)])

\* Two handles of the node a are compared
CompareSame(a) ==
    Compared([op |-> "same", a |-> a, b |-> a, c |-> a,
              ab |-> ex_compare(heap, a, a), ba |-> ex_compare(heap, a, a),
              bc |-> ex_compare(heap, a, a), ac |-> ex_compare(heap, a, a),
              eq |-> ex_is_equal(heap, a, a), cst |-> 0, iest |-> TRUE])

NextCompare ==
    \/ \E a \in ContainerNodes : \E b \in ContainerNodes \ {a} :
          \E c \in ContainerNodes \ {a, b} : Compare(a, b, c)
    \/ \E a \in ContainerNodes : CompareSame(a)

SpecCompare == InitCompare /\ [][NextCompare]_vars

----------------------------------------------------------------------------
(* Evaluation to a level: eval, evalf and normal of nested lists and        *)
(* matrices.  A chain is a container in a container ... around a symbol:    *)
(* chain[d] is the container at nesting depth d - 1, a list or a matrix     *)
(* with its flag status_flags::evaluated, and its one element is chain[d+1],*)
(* the symbol behind the last.  An evaluation yields [exc, descents]: what  *)
(* it threw, and how many containers had their elements evaluated.          *)

\* max_recursion_level, scaled down
max_recursion_level == 2

MaxNest == 4      \* containers nested in one another
MaxLevel == 4     \* the largest level an evaluation is started with

\* The node returned as it is
held == [exc |-> "", descents |-> 0]

\* The element was evaluated with result r
descended(r) == [r EXCEPT !.descents = @ + 1]

RECURSIVE ex_eval(_, _, _, _)

\* ${CONTAINER}::evalchildren(level), evalfchildren(level) and
\* normalchildren(level) on chain[d], f being what is called for the element:
\* eval, evalf or normal
evalchildren(f, chain, d, level) ==
    IF level = 1
    THEN held
    ELSE IF level = 0 - max_recursion_level
    THEN [exc |-> "runtime_error", descents |-> 0]
    ELSE descended(ex_eval(f, chain, d + 1, level - 1))

\* ${CONTAINER}::eval(level) on chain[d]
container_eval(chain, d, level) ==
    IF level = 1 THEN held ELSE evalchildren("eval", chain, d, level)

\* ${CONTAINER}::evalf(level) on chain[d]
container_evalf(chain, d, level) == evalchildren("evalf", chain, d, level)

\* ${CONTAINER}::normal(sym_lst, repl_lst, level) on chain[d]; basic::normal,
\* called on the result, works on the new list alone
container_normal(chain, d, level) == evalchildren("normal", chain, d, level)

\* matrix::eval(level) on chain[d]
matrix_eval(chain, d, level) ==
    IF level = 1 /\ chain[d].evaluated
    THEN held
    ELSE IF level = 0 - max_recursion_level
    THEN [exc |-> "runtime_error", descents |-> 0]
    ELSE descended(ex_eval("eval", chain, d + 1, level - 1))

\* matrix::evalf(level) on chain[d]
matrix_evalf(chain, d, level) ==
    IF level = 1
    THEN held
    ELSE IF level = 0 - max_recursion_level
    THEN [exc |-> "runtime_error", descents |-> 0]
    ELSE descended(ex_eval("evalf", chain, d + 1, level - 1))

\* ex::eval(level), ex::evalf(level) and ex::normal(level) on the handle of
\* chain[d]: the member function of the node's class.  A symbol is returned
\* as it is; so is a matrix by normal, which class matrix does not override.
ex_eval(f, chain, d, level) ==
    IF d > Len(chain)
    THEN held
    ELSE IF chain[d].kind = "matrix"
    THEN CASE f = "eval" -> matrix_eval(chain, d, level)
           [] f = "evalf" -> matrix_evalf(chain, d, level)
           [] f = "normal" -> held
    ELSE CASE f = "eval" -> container_eval(chain, d, level)
           [] f = "evalf" -> container_evalf(chain, d, level)
           [] f = "normal" -> container_normal(chain, d, level)

\* The containers: a list, a matrix just constructed and a matrix that eval
\* returned
Containers ==
    { [kind |-> "lst", evaluated |-> FALSE],
      [kind |-> "matrix", evaluated |-> FALSE],
      [kind |-> "matrix", evaluated |-> TRUE] }

Chains == UNION { [1..n -> Containers] : n \in 1..MaxNest }

\* The levels an evaluation is started with: some below -max_recursion_level
Levels == (0 - max_recursion_level - 2)..MaxLevel

InitEval ==
    /\ heap = <<>>
    /\ nextSerial = 1
    /\ evalOrder = "ltr"
    /\ ars = [i \in ArchiveIds |-> empty_archive]
    /\ stream = <<>>
    /\ phase = "build"
    /\ last = [op |-> "none"]
    /\ ghost = ghost0
    /\ varint = varint0
    /\ world = world0
    /\ terms = [ex |-> <<>>, ops |-> 0, distribute |-> FALSE]
    /\ mat = [M |-> matrix(0, 0, <<>>, FALSE), last |-> [op |-> "none"]]
    /\ \E chain \in Chains : tree = [chain |-> chain, last |-> [op |-> "none"]]

Evaluated(f, level, r) ==
    /\ tree.last.op = "none"
    /\ tree' = [tree EXCEPT !.last = [op |-> f, level |-> level, exc |-> r.exc,
                                      descents |-> r.descents]]
    /\ UNCHANGED <<heap, nextSerial, evalOrder, ars, stream, phase, last, ghost, varint, world, terms, mat>>

\* e.eval(level) for the handle e of the outermost container
Eval(level) == Evaluated("eval", level, ex_eval("eval", tree.chain, 1, level))

\* e.evalf(level)
Evalf(level) == Evaluated("evalf", level, ex_eval("evalf", tree.chain, 1, level))

\* e.normal(level)
Normal(level) == Evaluated("normal", level, ex_eval("normal", tree.chain, 1, level))

NextEval ==
    \/ \E level \in Levels : Eval(level)
    \/ \E level \in Levels : Evalf(level)
    \/ \E level \in Levels : Normal(level)

SpecEval == InitEval /\ [][NextEval]_vars

----------------------------------------------------------------------------
(* Substitution in lists: subs(ls, lr) of a list of symbols and lists.  The  *)
(* expressions are nodes of the heap; ls and lr are the elements of the two *)
(* lists handed to subs.                                                    *)

MaxSubsHeap == 8   \* nodes of the heap substitutions may fill

\* symbol::subs: the element of lr at the place of the first element of ls
\* that is this symbol; the symbol itself when there is none
symbol_subs(h, e, ls, lr) ==
    LET hits == { i \in 1..Len(ls) : h[ls[i]].kind = "symbol" /\ h[ls[i]].serial = h[e].serial }
    IN  IF hits = {} THEN e ELSE lr[Min(hits)]

\* are_ex_trivially_equal: the two handles point to one node
are_ex_trivially_equal(e1, e2) == e1 = e2

RECURSIVE ex_subs(_, _, _, _)
RECURSIVE subschildren(_, _, _, _, _)
RECURSIVE subs_rest(_, _, _, _, _)

\* The loop "copy rest" of subschildren: the substituted children cit2 and
\* following: [heap, s]
subs_rest(h, e, ls, lr, cit2) ==
    IF cit2 > Len(h[e].seq)
    THEN [heap |-> h, s |-> <<>>]
    ELSE LET c == ex_subs(h, h[e].seq[cit2], ls, lr)
             r == subs_rest(c.heap, e, ls, lr, cit2 + 1)
         IN  [heap |-> r.heap, s |-> <<c.val>> \o r.s]

\* subschildren without the substitution in the rest: the children behind the
\* first changed one are copied as they are
subschildren_rest_copied(h, e, ls, lr, cit) ==
    IF cit > Len(h[e].seq)
    THEN [heap |-> h, null |-> TRUE, s |-> <<>>]
    ELSE LET subsed_ex == ex_subs(h, h[e].seq[cit], ls, lr)
         IN  IF ~are_ex_trivially_equal(h[e].seq[cit], subsed_ex.val)
             THEN [heap |-> subsed_ex.heap, null |-> FALSE,
                   s |-> SubSeq(h[e].seq, 1, cit - 1) \o <<subsed_ex.val>>
                         \o SubSeq(h[e].seq, cit + 1, Len(h[e].seq))]
             ELSE subschildren(subsed_ex.heap, e, ls, lr, cit + 1)

\* ${CONTAINER}::subschildren from child cit on: [heap, null, s], null when
\* nothing had to be substituted, s the new vector otherwise
subschildren(h, e, ls, lr, cit) ==
    IF cit > Len(h[e].seq)
    THEN [heap |-> h, null |-> TRUE, s |-> <<>>]
    ELSE LET subsed_ex == ex_subs(h, h[e].seq[cit], ls, lr)
             rest == subs_rest(subsed_ex.heap, e, ls, lr, cit + 1)
         IN  IF ~are_ex_trivially_equal(h[e].seq[cit], subsed_ex.val)
             THEN [heap |-> rest.heap, null |-> FALSE,
                   s |-> SubSeq(h[e].seq, 1, cit - 1) \o <<subsed_ex.val>> \o rest.s]
             ELSE subschildren(subsed_ex.heap, e, ls, lr, cit + 1)

\* ${CONTAINER}::subs: [heap, val]
container_subs(h, e, ls, lr) ==
    LET vp == subschildren(h, e, ls, lr, 1)
    IN  IF vp.null
        THEN [heap |-> vp.heap, val |-> e]
        ELSE [heap |-> Append(vp.heap, lst_node(vp.s)), val |-> Len(vp.heap) + 1]

\* ex::subs: the subs of the node the handle points to
ex_subs(h, e, ls, lr) ==
    IF h[e].kind = "symbol"
    THEN [heap |-> h, val |-> symbol_subs(h, e, ls, lr)]
    ELSE container_subs(h, e, ls, lr)

\* The expressions at the start: x, y, x once more in a node of its own,
\* lst(x, y), lst(lst(x, y), x, y) and the empty list
SubsHeap ==
    <<sym_x, sym_y, sym_x, lst_node(<<1, 2>>), lst_node(<<4, 1, 2>>), lst_node(<<>>)>>

\* The lists ls of subs: no symbol, x, y, both
SubsFrom == { <<>>, <<1>>, <<2>>, <<1, 2>>, <<2, 1>> }

\* What is put in the place of a symbol: x, x in its other node, lst(x, y)
SubsValues == {1, 3, 4}

\* The lists lr of subs for the list ls: as many of these
SubsTo(ls) == [1..Len(ls) -> SubsValues]

InitSubs ==
    /\ KernelIdle
    /\ heap = SubsHeap
    /\ nextSerial = Cardinality(Symbols) + 1
    /\ evalOrder = "ltr"
    /\ ars = [i \in ArchiveIds |-> empty_archive]
    /\ stream = <<>>
    /\ phase = "subs"
    /\ last = [op |-> "none"]
    /\ ghost = ghost0
    /\ varint = varint0
    /\ world = world0

\* e.subs(ls, lr) for a list e
Subs(e, ls, lr) ==
    /\ heap[e].kind = "lst"
    /\ \E r \in {ex_subs(heap, e, ls, lr)} :
          /\ Len(r.heap) <= MaxSubsHeap
          /\ heap' = r.heap
          /\ last' = [op |-> "subs", e |-> e, ls |-> ls, lr |-> lr, val |-> r.val,
                      before |-> heap]
    /\ UNCHANGED <<kernel, varint, world, nextSerial, evalOrder, ars, stream, phase, ghost>>

NextSubs ==
    \E e \in 1..Len(heap), ls \in SubsFrom : \E lr \in SubsTo(ls) : Subs(e, ls, lr)

SpecSubs == InitSubs /\ [][NextSubs]_vars

----------------------------------------------------------------------------
(* Properties of the archive *)

\* The symbols of expression e are all in sym_lst
supplies(sym_lst, e) ==
    \A n \in reach(heap, e) :
        heap[n].kind = "symbol" =>
            \E k \in 1..Len(sym_lst) : heap[sym_lst[k]] = heap[n]

\* The places of the log of archive i where the name is used
named(i, name) == { k \in 1..Len(ghost.log[i]) : ghost.log[i][k].name = name }

\* C1: an expression e archived with archive_ex(e, name) under a name not yet
\* used in the archive is returned, structurally equal, by
\* unarchive_ex(sym_lst, name) when sym_lst holds e's symbols: on the archive
\* it was archived into, and on an empty archive that has read the stream the
\* archive was written to.
C1_RoundTrip ==
    last.op = "unarchive_ex_name" =>
        LET i == last.ar
            hits == named(i, last.key)
            e == ghost.log[i][Min(hits)].e
        IN  /\ hits # {}
            /\ IF i = 1 THEN ghost.built[i] ELSE ghost.clean[i]
            /\ supplies(last.sym_lst, e)
            => /\ last.exc = ""
               /\ is_equal(heap, last.val, e)

\* C1 holds of every unarchive_ex that no unarchive_ex with a list lacking
\* symbols went before (since the archive was read or its nodes forgot).
C1_RoundTripUncached ==
    last.op = "unarchive_ex_name" /\ ~ghost.lacking[last.ar] => C1_RoundTrip

\* An expression with a symbol came back from the archive that read the stream
C1_Witness ==
    /\ last.op = "unarchive_ex_name" /\ last.ar = 2 /\ last.exc = ""
    /\ named(2, last.key) # {}
    /\ ghost.clean[2] /\ ~ghost.lacking[2]
    /\ last.sym_lst # <<>>
    /\ heap[last.val].kind = "lst" /\ Len(heap[last.val].seq) = 2

\* The nodes of the expressions archive i holds
archived_nodes(i) ==
    UNION { reach(heap, ghost.log[i][k].e) : k \in 1..Len(ghost.log[i]) }

\* C4: in an archive built by archive_ex calls the node table has one entry
\* for each expression node archived and no node twice, and archiving an
\* expression that has a node already returns that node's id and adds no node.
C4_NodeDedup ==
    \A i \in ArchiveIds :
        ghost.built[i] =>
            LET nodes == ars[i].nodes
            IN  /\ \A j, k \in 1..Len(nodes) : nodes[j].e = nodes[k].e => j = k
                /\ { nodes[j].e : j \in 1..Len(nodes) } = archived_nodes(i)
                /\ \A j \in 1..Len(nodes) : nodes[j].has_expression
                /\ last.op = "archive_ex" /\ last.ar = i /\ last.known < last.nodes
                   => /\ Len(nodes) = last.nodes
                      /\ ars[i].exprs[Len(ars[i].exprs)].root = last.known

\* An expression was archived a second time, and the archive holds a list
\* that has one node as two of its children
C4_Witness ==
    /\ last.op = "archive_ex" /\ last.known < last.nodes
    /\ Len(ars[1].exprs) = 2
    /\ \E k \in 1..Len(ghost.log[1]) :
          LET e == ghost.log[1][k].e
          IN  Len(heap[e].seq) = 2 /\ heap[e].seq[1] = heap[e].seq[2]

\* Strings to atomize: atoms of every archive, and one that is in none
AtomStrings == {str_class, str_x, str_y, str_empty, str_seq, <<122>>}

no_atom_twice(atoms) == \A j, k \in 1..Len(atoms) : atoms[j] = atoms[k] => j = k

\* C5: no archive holds a string twice in its atom table; atomize gives a
\* string the same id at every call, gives two strings two ids, leaves the
\* atoms there are where they are, and unatomize gives the string back.
C5_AtomInterning ==
    \A i \in ArchiveIds :
        LET ar == ars[i]
        IN  /\ no_atom_twice(ar.atoms)
            /\ \A s \in AtomStrings :
                  LET a == atomize(ar, s)
                  IN  /\ atomize(a.ar, s) = a
                      /\ unatomize(a.ar, a.id) = [exc |-> "", val |-> s]
                      /\ SubSeq(a.ar.atoms, 1, Len(ar.atoms)) = ar.atoms
                      /\ \A t \in AtomStrings \ {s} : atomize(a.ar, t).id # a.id

\* C8: the archive that an empty archive becomes by reading a stream written
\* by operator<< is written as that same stream, byte by byte.
C8_StableSerialization ==
    last.op = "read" /\ last.before = empty_archive =>
        /\ last.exc = "" /\ last.status = "ok"
        /\ write_archive(ars[last.ar]) = stream

\* An archive of two expressions and three nodes was read
C8_Witness ==
    /\ last.op = "read" /\ last.before = empty_archive
    /\ Len(ars[2].exprs) = 2 /\ Len(ars[2].nodes) >= 3
    /\ ars[2].exprs[1].root # ars[2].exprs[1].name

\* The header of the stream is one operator>> accepts
header_ok ==
    /\ ghost.header.sig = Signature
    /\ ghost.header.version >= ARCHIVE_VERSION - ARCHIVE_AGE
    /\ ghost.header.version <= ARCHIVE_VERSION

\* Where the tables start in the stream
tables_pos == Len(Signature) + Len(write_unsigned(W(ghost.header.version))) + 1

\* C9: reading a stream whose signature is not GARC or whose version is
\* outside [ARCHIVE_VERSION - ARCHIVE_AGE, ARCHIVE_VERSION] throws
\* runtime_error with no byte of the tables read and the archive as it was;
\* a stream with the signature and a version in the window is accepted.
C9_VersionWindow ==
    last.op = "read" =>
        IF header_ok
        THEN last.exc = ""
        ELSE /\ last.exc = "runtime_error"
             /\ last.pos <= tables_pos
             /\ ars[last.ar] = last.before

\* A version just above the window was refused by an archive that held tables
C9_Witness ==
    /\ last.op = "read" /\ last.exc = "runtime_error"
    /\ ghost.header.sig = Signature
    /\ ghost.header.version = ARCHIVE_VERSION + 1
    /\ last.before # empty_archive

\* The root node id the lookup meets, -1 when it meets none
root_met ==
    LET ar == ars[last.ar]
        k == IF last.op = "unarchive_ex_name"
             THEN exprs_search(ar.exprs, atomize_search(ar.atoms, last.key))
             ELSE last.key
    IN  IF last.op \in {"unarchive_ex_name", "unarchive_ex_index", "unarchive_ex_named_index",
                        "get_top_node"}
           /\ k < Len(ar.exprs)
           /\ (last.op = "unarchive_ex_named_index" => ar.exprs[k + 1].name < Len(ar.atoms))
        THEN ar.exprs[k + 1].root
        ELSE -1

\* C10: a lookup with a node id, an atom id or an expression index outside
\* its table throws range_error, and so does one that meets a root node id
\* outside the node table.
C10_RangeErrors ==
    LET ar == ars[last.ar]
    IN  /\ last.op = "get_node" /\ last.key >= Len(ar.nodes) => last.exc = "range_error"
        /\ last.op = "unatomize" /\ last.key >= Len(ar.atoms) => last.exc = "range_error"
        /\ last.op \in {"unarchive_ex_index", "unarchive_ex_named_index", "get_top_node"}
           /\ last.key >= Len(ar.exprs) => last.exc = "range_error"
        /\ last.op # "none" /\ root_met >= Len(ar.nodes) => last.exc = "range_error"

\* C10 without the root node ids
C10_RangeErrorsChecked ==
    LET ar == ars[last.ar]
    IN  /\ last.op = "get_node" /\ last.key >= Len(ar.nodes) => last.exc = "range_error"
        /\ last.op = "unatomize" /\ last.key >= Len(ar.atoms) => last.exc = "range_error"
        /\ last.op \in {"unarchive_ex_index", "unarchive_ex_named_index", "get_top_node"}
           /\ last.key >= Len(ar.exprs) => last.exc = "range_error"

----------------------------------------------------------------------------
(* Properties of the unsigned ints on a stream *)

\* The bytes that the k-th write_unsigned put on the stream
emitted(k) ==
    SubSeq(stream, IF k = 1 THEN 1 ELSE varint.ends[k - 1] + 1, varint.ends[k])

\* C6: every unsigned int written by write_unsigned is read back by
\* read_unsigned as the same value, and the read consumes exactly the bytes
\* the write emitted: the k-th read ends where the k-th write ended, so that
\* the values written one after another are read back in order.
C6_VarintRoundTrip ==
    \A k \in 1..Len(varint.got) :
        /\ varint.got[k].status = "ok"
        /\ varint.got[k].good
        /\ varint.got[k].val = varint.vals[k]
        /\ varint.got[k].pos = varint.ends[k] + 1

C6_Witness ==
    /\ Len(varint.got) = 2
    /\ varint.vals[1] = [hi |-> 65535, lo |-> 65535]
    /\ varint.vals[2] = W(16384)
    /\ varint.got[2].val = W(16384)
    /\ Len(stream) = 8

\* bit k of the unsigned int w
Bit(w, k) ==
    IF k < 16 THEN (w.lo \div Pow2(k)) % 2
    ELSE IF k < 32 THEN (w.hi \div Pow2(k - 16)) % 2
    ELSE 0

\* the g-th group of 7 bits of w, the least significant being group 1
Group(w, g) ==
    LET k == 7 * (g - 1)
    IN  Bit(w, k) + 2 * Bit(w, k + 1) + 4 * Bit(w, k + 2) + 8 * Bit(w, k + 3)
          + 16 * Bit(w, k + 4) + 32 * Bit(w, k + 5) + 64 * Bit(w, k + 6)

\* the number of groups of w up to its most significant non-zero group
Groups(w) ==
    IF \A g \in 1..5 : Group(w, g) = 0 THEN 1
    ELSE CHOOSE n \in 1..5 : Group(w, n) # 0 /\ \A g \in (n + 1)..5 : Group(w, g) = 0

\* C7: write_unsigned(v) emits the one byte v when v <= 0x7f, and otherwise
\* the 7-bit groups of v from the least to the most significant, one byte per
\* group, every byte but the last with bit 7 set, the last with bit 7 clear
\* and not zero; 0x80 gives 0x80 0x01, 0x100 gives 0x80 0x02, 0x3fff gives
\* 0xff 0x7f and 0x4000 gives 0x80 0x80 0x01.
C7_VarintLayout ==
    \A k \in 1..Len(varint.vals) :
        LET v == varint.vals[k]
            bytes == emitted(k)
            n == Len(bytes)
        IN  /\ v.hi = 0 /\ v.lo <= 127 => bytes = <<v.lo>>
            /\ v.hi > 0 \/ v.lo > 127 =>
                  /\ n = Groups(v)
                  /\ n > 1
                  /\ \A g \in 1..(n - 1) : bytes[g] = 128 + Group(v, g)
                  /\ bytes[n] = Group(v, n)
                  /\ bytes[n] # 0
                  /\ bytes[n] < 128
            /\ v = W(128) => bytes = <<128, 1>>
            /\ v = W(256) => bytes = <<128, 2>>
            /\ v = W(16383) => bytes = <<255, 127>>
            /\ v = W(16384) => bytes = <<128, 128, 1>>

C7_Witness ==
    /\ Len(varint.vals) = 2
    /\ varint.vals[1] = W(16384)
    /\ emitted(1) = <<128, 128, 1>>
    /\ varint.vals[2] = [hi |-> 65535, lo |-> 65535]
    /\ emitted(2) = <<255, 255, 255, 255, 15>>

----------------------------------------------------------------------------
(* Properties of the handles *)

\* The nodes that were not deleted
live_nodes == { n \in 1..Len(world.node) : ~world.node[n].deleted }

\* The number of live handles pointing to node n: the static handle
\* exZERO(), the constructed handles of the user's program and the handles
\* owned by the nodes that were not deleted
live_handles(n) ==
    (IF n = exZERO_bp THEN 1 ELSE 0)
    + Cardinality({ k \in Slots : world.slot[k] = n })
    + Cardinality({ c \in UNION { { <<m, i>> : i \in 1..Len(world.node[m].seq) } :
                                    m \in live_nodes } :
                    world.node[c[1]].seq[c[2]] = n })

\* C2: after any sequence of default constructions, copy constructions,
\* assignments (of a handle to itself, or of a handle owned by its own node,
\* among them) and destructions of handles, the refcount of every node is the
\* number of live handles pointing to it, a node is deleted exactly when that
\* number has dropped to zero, and no live handle points to a deleted node
\* (nor was a deleted node ever used).
C2_RefcountInvariant ==
    /\ ~world.ub
    /\ \A n \in 1..Len(world.node) :
          /\ ~world.node[n].deleted => world.node[n].refcount = live_handles(n)
          /\ world.node[n].deleted <=> live_handles(n) = 0

\* The first handle was assigned a handle owned by its node, lst(a, b), and
\* its old node, lst(lst(a, b), a), was deleted
C2_Witness ==
    /\ Len(world.node) = 5
    /\ world.slot[1] = 4
    /\ world.node[5].deleted
    /\ ~world.node[4].deleted
    /\ world.node[4].refcount = 1
    /\ world.node[2].refcount = 1

\* C3: a node that more than one handle points to is not mutated in place:
\* no step changes what such a node holds (its handles and its size) while
\* the node lives on, so that
\* no call of append, prepend, set or let_op through one handle shows through
\* another handle.
C3_SharingSafety ==
    [][\A n \in live_nodes :
          world.node[n].refcount > 1 /\ ~world'.node[n].deleted =>
              /\ world'.node[n].seq = world.node[n].seq
              /\ world'.node[n].row = world.node[n].row
              /\ world'.node[n].col = world.node[n].col]_vars

\* The same of every step but the assignments through the handle that the
\* let_op of a node returns
C3_SharingSafetyGuarded ==
    [][(\A k \in Slots, i \in 0..3 : \A other \in Refs(world) :
            ~LstLetOpAssign(k, i, other) /\ ~MatrixLetOpAssign(k, i, other))
       => \A n \in live_nodes :
             world.node[n].refcount > 1 /\ ~world'.node[n].deleted =>
                 /\ world'.node[n].seq = world.node[n].seq
                 /\ world'.node[n].row = world.node[n].row
                 /\ world'.node[n].col = world.node[n].col]_vars

----------------------------------------------------------------------------
(* Properties of reading a stream that ends early *)

\* The stream is what operator<< writes for an archive, less its last bytes
truncated ==
    \E tables \in TruncatedTables :
        \E whole \in {write_archive(tables)} :
            Len(stream) < Len(whole) /\ stream = SubSeq(whole, 1, Len(stream))

\* C11: reading an archive from a stream that ends before all announced
\* atoms, expressions, nodes and properties have been read fails with
\* runtime_error (the read returns no archive and does not loop forever), and
\* unarchiving a node that has no "class" string property fails with
\* runtime_error.
C11_UnarchiveFailure ==
    /\ last.op = "read" /\ truncated =>
           last.status = "ok" /\ last.exc = "runtime_error"
    /\ /\ last.op = "unarchive_ex_name" /\ last.key = str_empty
       /\ ars[2].nodes = ForeignNoClass.nodes
       => last.exc = "runtime_error"

\* C11, the part on nodes: the expression of a node without a "class" string
\* property is refused with runtime_error.
C11_NoClassRefused ==
    /\ last.op = "unarchive_ex_name" /\ last.key = str_empty
    /\ ars[2].nodes = ForeignNoClass.nodes
    => last.exc = "runtime_error"

\* The stream ended among the nodes, and operator>> returned as if it had
\* read an archive
C11_Witness ==
    /\ last.op = "read" /\ truncated
    /\ last.status = "ok" /\ last.exc = ""
    /\ Len(ars[2].atoms) > 0 /\ Len(ars[2].exprs) > 0

----------------------------------------------------------------------------
(* Properties of sums and products *)

\* The expression e and all expressions below it
RECURSIVE subexpressions(_)
subexpressions(e) ==
    {e} \cup
    CASE e.tinfo \in {"add", "mul"} ->
            UNION { subexpressions(e.seq[i].rest) : i \in 1..Len(e.seq) }
      [] e.tinfo = "power" -> subexpressions(e.basis)
      [] OTHER -> {}

\* The sums and products the program holds, at any depth
composites ==
    { e \in UNION { subexpressions(terms.ex[k]) : k \in DOMAIN terms.ex } :
        e.tinfo \in {"add", "mul"} }

\* C12: sums and products do not depend on the order or the bracketing of
\* the operands: (x + y) + z is structurally x + (y + z) and x + y is y + x,
\* and likewise for operator*, for all expressions x, y, z of the program.
C12_OrderAndBracketing ==
    \A i \in DOMAIN terms.ex, j \in DOMAIN terms.ex, k \in DOMAIN terms.ex :
        LET plus(a, b) == operator_add(terms.distribute, a, b)
            times(a, b) == operator_mul(terms.distribute, a, b)
            law(x, y, z) ==
                /\ plus(plus(x, y), z) = plus(x, plus(y, z))
                /\ plus(x, y) = plus(y, x)
                /\ times(times(x, y), z) = times(x, times(y, z))
                /\ times(x, y) = times(y, x)
        IN  law(terms.ex[i], terms.ex[j], terms.ex[k])

\* The part of C12 that holds whatever becomes of a numeric times a sum:
\* sums do not depend on order or bracketing, products not on the order.
C12_SumsAndOrder ==
    \A i \in DOMAIN terms.ex, j \in DOMAIN terms.ex, k \in DOMAIN terms.ex :
        LET plus(a, b) == operator_add(terms.distribute, a, b)
            times(a, b) == operator_mul(terms.distribute, a, b)
            law(x, y, z) ==
                /\ plus(plus(x, y), z) = plus(x, plus(y, z))
                /\ plus(x, y) = plus(y, x)
                /\ times(x, y) = times(y, x)
        IN  law(terms.ex[i], terms.ex[j], terms.ex[k])

C14_Collapse ==
    /\ \A k \in DOMAIN terms.ex :
          LET plus(a, b) == operator_add(terms.distribute, a, b)
              times(a, b) == operator_mul(terms.distribute, a, b)
              law(x) ==
                  /\ plus(x, numeric(0)) = x
                  /\ plus(numeric(0), x) = x
                  /\ times(x, numeric(1)) = x
                  /\ times(numeric(1), x) = x
                  /\ times(x, numeric(0)) = numeric(0)
                  /\ times(numeric(0), x) = numeric(0)
          IN  law(terms.ex[k])
    /\ \A e \in composites :
          ~(Len(e.seq) = 1 /\ e.overall_coeff = default_overall_coeff(e.tinfo))

\* The part of C14 that holds whatever becomes of a numeric times a sum:
\* x * 1 is x, x * 0 is 0, and x + 0 is x unless x is a numeric times a sum.
C14_CollapseButMultiples ==
    /\ \A k \in DOMAIN terms.ex :
          LET plus(a, b) == operator_add(terms.distribute, a, b)
              times(a, b) == operator_mul(terms.distribute, a, b)
              multiple(x) == x.tinfo = "mul" /\ Len(x.seq) = 1 /\ x.seq[1].rest.tinfo = "add"
                             /\ x.seq[1].coeff = 1
              law(x) ==
                  /\ ~multiple(x) => plus(x, numeric(0)) = x /\ plus(numeric(0), x) = x
                  /\ times(x, numeric(1)) = x
                  /\ times(numeric(1), x) = x
                  /\ times(x, numeric(0)) = numeric(0)
                  /\ times(numeric(0), x) = numeric(0)
          IN  law(terms.ex[k])
    /\ \A e \in composites :
          ~(Len(e.seq) = 1 /\ e.overall_coeff = default_overall_coeff(e.tinfo))

----------------------------------------------------------------------------
(* Properties of the matrices *)

\* The Leibniz formula for the determinant of the square matrix M with
\* integer elements: the sum, over the permutations s of the columns, of the
\* sign of s (1 for an even number of inversions, -1 for an odd one) times
\* the product of the elements M(i, s(i)).
leibniz(M) ==
    LET n == M.row
        sign(s) ==
            IF Cardinality({ p \in (1..n) \X (1..n) : p[1] < p[2] /\ s[p[1]] > s[p[2]] }) % 2 = 0
            THEN 1 ELSE 0 - 1
        RECURSIVE product(_, _)
        product(s, i) == IF i > n THEN 1 ELSE M.m[(i - 1) * n + s[i] + 1][1] * product(s, i + 1)
        RECURSIVE total(_)
        total(S) == IF S = {} THEN 0
                    ELSE LET s == CHOOSE t \in S : TRUE
                         IN  sign(s) * product(s, 1) + total(S \ {s})
    IN  total(Sigmas[n])

\* C15: for a nonsingular M, M.solve(v) returns a matrix X of the shape of
\* v with M * X == v.
C15_SolveSolves ==
    (mat.last.op = "solve" /\ leibniz(mat.M) # 0) =>
        /\ mat.last.r.exc = ""
        /\ mat.last.r.val.row = mat.last.v.row
        /\ mat.last.r.val.col = mat.last.v.col
        /\ matrix_mul(mat.M, mat.last.r.val).val.m = mat.last.v.m

\* C16: inverse() and solve(v) throw runtime_error when M is singular.
C16_SingularReported ==
    (mat.last.op \in {"inverse", "solve"} /\ leibniz(mat.M) = 0) =>
        mat.last.r.exc = "runtime_error"

\* The part of C16 on inverse(): it throws runtime_error when M is singular
\* (and only then).
C16_InverseSingular ==
    mat.last.op = "inverse" => (mat.last.r.exc = "runtime_error" <=> leibniz(mat.M) = 0)

\* C17: whichever algorithm determinant() takes (Laplace expansion, the sum
\* over the permutations, elimination with pivoting), it returns the
\* value of the Leibniz formula, for the matrices of 1 to 4 rows.
C17_DeterminantAlgorithms ==
    mat.last.op = "determinant" =>
        /\ mat.last.r.exc = ""
        /\ mat.last.r.val = <<leibniz(mat.M), 1>>

\* determinant(true) of a matrix of four rows with symbolic elements
\* returned a value other than 0: the Laplace expansion went through minors
C17_Witness ==
    /\ mat.last.op = "determinant"
    /\ mat.M.row = 4
    /\ mat.last.symbolic
    /\ mat.last.normalized
    /\ mat.last.r.val # <<0, 1>>

----------------------------------------------------------------------------
(* Properties of the access to elements *)

\* The call of last was made with an index outside the matrix
outside(ro, co, M) == ro < 0 \/ ro >= M.row \/ co < 0 \/ co >= M.col

\* C18: operator() and set with a row or a column outside the matrix throw
\* range_error, and so does let_op with a flat index outside [0, nops) on a
\* matrix and on a list, and nothing is changed; a set inside the matrix that
\* returns has changed element (ro, co) and nothing else of the matrix.
C18_RangeErrors ==
    LET M == last.before.node[last.n]
    IN  /\ last.op \in {"operator()", "set"} /\ outside(last.ro, last.co, M)
           => last.exc = "range_error" /\ world = last.before
        /\ last.op \in {"matrix::let_op", "lst::let_op"}
           /\ (last.i < 0 \/ last.i >= Len(M.seq))
           => last.exc = "range_error" /\ world = last.before
        /\ last.op = "set" /\ ~outside(last.ro, last.co, M) /\ last.exc = ""
           => /\ world.node[last.n].seq =
                    [M.seq EXCEPT ![last.ro * M.col + last.co + 1] = last.value]
              /\ world.node[last.n].row = M.row
              /\ world.node[last.n].col = M.col

\* C18 for operator() and set alone: range_error outside the matrix with
\* nothing changed, the element and nothing else of the matrix inside
C18_RowAndColumnChecked ==
    LET M == last.before.node[last.n]
    IN  /\ last.op \in {"operator()", "set"} /\ outside(last.ro, last.co, M)
           => last.exc = "range_error" /\ world = last.before
        /\ last.op = "operator()" /\ ~outside(last.ro, last.co, M)
           => /\ last.exc = "" /\ world = last.before
              /\ last.ref = child_ref(last.n, last.ro * M.col + last.co)
        /\ last.op = "set" /\ ~outside(last.ro, last.co, M) /\ last.exc = ""
           => /\ world.node[last.n].seq =
                    [M.seq EXCEPT ![last.ro * M.col + last.co + 1] = last.value]
              /\ world.node[last.n].row = M.row
              /\ world.node[last.n].col = M.col

\* A set that changed an element, and one refused for its index
C18_SetDone ==
    /\ last.op = "set" /\ last.exc = ""
    /\ world.node[last.n].seq # last.before.node[last.n].seq

C18_SetRefused ==
    /\ last.op = "set" /\ last.exc = "range_error"
    /\ last.ro = last.before.node[last.n].row

\* let_op(nops()) on a matrix, which did not throw range_error
C18_Witness ==
    /\ last.op = "matrix::let_op"
    /\ last.i = Len(last.before.node[last.n].seq)
    /\ last.exc # "range_error"

----------------------------------------------------------------------------
(* Properties of the evaluation to a level *)

\* The last evaluation goes from container to container by the functions
\* with a level: not so normal where it meets a matrix
levelled ==
    /\ tree.last.op # "none"
    /\ tree.last.op = "normal" => \A d \in 1..Len(tree.chain) : tree.chain[d].kind = "lst"

\* C19: an evaluation started with a level <= 0 on containers nested deeper
\* than max_recursion_level ends with runtime_error; one started with a
\* level L > 0 evaluates the elements of the containers of L - 1 nesting
\* levels (of all there are, if fewer) and throws nothing; with level 1 no
\* element is evaluated.
C19_RecursionLimit ==
    LET n == Len(tree.chain)
        L == tree.last.level
    IN  levelled =>
           /\ L <= 0 /\ n > max_recursion_level => tree.last.exc = "runtime_error"
           /\ L > 0 => /\ tree.last.exc = ""
                       /\ tree.last.descents = IF L - 1 < n THEN L - 1 ELSE n

\* The container an evaluation started with the level L > 0 enters with
\* level 1 is no matrix that eval has yet to flag as evaluated
stops_at_one(f, chain, L) ==
    L <= Len(chain) /\ f = "eval" =>
       ~(chain[L].kind = "matrix" /\ ~chain[L].evaluated)

\* C19 as the code has it: a start level from -max_recursion_level to 0 ends
\* with runtime_error after max_recursion_level + L nesting levels, if there
\* are more; a start level below -max_recursion_level goes through every
\* container and throws nothing; a level L > 0 goes L - 1 nesting levels
\* deep unless eval enters a matrix not flagged as evaluated with level 1.
C19_LimitCountedFromStart ==
    LET n == Len(tree.chain)
        L == tree.last.level
    IN  levelled =>
           /\ L <= 0 /\ L >= 0 - max_recursion_level /\ n > max_recursion_level + L
              => /\ tree.last.exc = "runtime_error"
                 /\ tree.last.descents = max_recursion_level + L
           /\ L <= 0 /\ L >= 0 - max_recursion_level /\ n <= max_recursion_level + L
              => tree.last.exc = "" /\ tree.last.descents = n
           /\ L < 0 - max_recursion_level
              => tree.last.exc = "" /\ tree.last.descents = n
           /\ L > 0 /\ stops_at_one(tree.last.op, tree.chain, L)
              => /\ tree.last.exc = ""
                 /\ tree.last.descents = IF L - 1 < n THEN L - 1 ELSE n

\* An evaluation started below -max_recursion_level that went through more
\* than max_recursion_level nested containers and threw nothing
C19_Witness ==
    /\ tree.last.op = "eval"
    /\ tree.last.level < 0 - max_recursion_level
    /\ Len(tree.chain) > max_recursion_level
    /\ tree.last.exc = ""
    /\ tree.last.descents = Len(tree.chain)

\* eval(1) of a matrix just constructed, which evaluated its elements
C19_MatrixLevelOne ==
    /\ tree.last.op = "eval"
    /\ tree.last.level = 1
    /\ tree.last.descents > 0

----------------------------------------------------------------------------
(* Properties of the order of the expressions *)

RECURSIVE structure(_, _)
\* What the node n of heap h stands for: its class, and its serial, or its
\* shape and what its elements stand for
structure(h, n) ==
    [kind |-> h[n].kind, serial |-> h[n].serial,
     row |-> IF h[n].kind = "matrix" THEN h[n].row ELSE 0,
     col |-> IF h[n].kind = "matrix" THEN h[n].col ELSE 0,
     seq |-> [i \in 1..Len(h[n].seq) |-> structure(h, h[n].seq[i])]]

\* The first pair of elements of the lists a and b that do not compare 0
\* decides; without one the shorter list comes first
lexicographic(h, a, b) ==
    LET la == Len(h[a].seq)
        lb == Len(h[b].seq)
        differ == { i \in 1..(IF la < lb THEN la ELSE lb) :
                      ex_compare(h, h[a].seq[i], h[b].seq[i]) # 0 }
        first == CHOOSE i \in differ : \A j \in differ : i <= j
    IN  IF differ # {}
        THEN ex_compare(h, h[a].seq[first], h[b].seq[first])
        ELSE IF la < lb THEN -1 ELSE IF la > lb THEN 1 ELSE 0

\* C20: for lists a and b, and for matrices, compare_same_type(a, b) is 0
\* exactly when is_equal_same_type(a, b) holds, which is when a and b are
\* structurally equal; compare_same_type of lists is lexicographic over the
\* elements, a proper prefix before the longer list; compare(a, b) is
\* -compare(b, a); the order is transitive; two handles of one node compare 0
\* and are equal.
C20_TotalOrder ==
    LET h == heap
        a == last.a
        b == last.b
    IN  /\ last.op = "compare" =>
           /\ h[a].kind = h[b].kind => (last.cst = 0 <=> last.iest)
           /\ h[a].kind = h[b].kind => (last.iest <=> structure(h, a) = structure(h, b))
           /\ last.ab = 0 <=> last.eq
           /\ last.eq <=> structure(h, a) = structure(h, b)
           /\ h[a].kind = "lst" /\ h[b].kind = "lst" => last.cst = lexicographic(h, a, b)
           /\ last.ab = 0 - last.ba
           /\ last.ab <= 0 /\ last.bc <= 0 =>
                 /\ last.ac <= 0
                 /\ last.ac = 0 => last.ab = 0 /\ last.bc = 0
        /\ last.op = "same" => last.ab = 0 /\ last.eq

\* A list that is a proper prefix of another was compared with it, and the
\* longer one with a third that is larger still
C20_Witness ==
    /\ last.op = "compare"
    /\ heap[last.a].kind = "lst" /\ heap[last.b].kind = "lst"
    /\ Len(heap[last.a].seq) = 1 /\ Len(heap[last.b].seq) = 2
    /\ ex_is_equal(heap, heap[last.a].seq[1], heap[last.b].seq[1])
    /\ last.cst = -1
    /\ last.bc = -1
    /\ last.ac = -1

\* Two handles of one list were compared
C20_SameNode ==
    /\ last.op = "same"
    /\ heap[last.a].kind = "lst"
    /\ last.ab = 0

----------------------------------------------------------------------------
(* Properties of an archive that reads a stream while it holds something *)

\* C25: after operator>> has read a stream into an archive that held
\* archived or cached expressions, unarchive_ex returns the expression the
\* stream describes, and the tables have the sizes the stream announces.
C25_ReadReplaces ==
    /\ last.op = "unarchive_ex_name" /\ last.ar = 2 /\ ~ghost.clean[2] /\ ~ghost.lacking[2] =>
          LET hits == named(2, last.key)
              e == ghost.log[2][Min(hits)].e
          IN  hits # {} /\ supplies(last.sym_lst, e)
              => last.exc = "" /\ is_equal(heap, last.val, e)
    /\ last.op = "read" /\ last.exc = "" /\ last.status = "ok" =>
          /\ Len(ars[2].atoms) = Len(ars[1].atoms)
          /\ Len(ars[2].exprs) = Len(ars[1].exprs)
          /\ Len(ars[2].nodes) = Len(ars[1].nodes)

\* C25 for the tables alone: after the read the archive has the atoms, the
\* expressions and the properties of the nodes of the archive that was
\* written, whatever it held before
C25_TablesReplaced ==
    last.op = "read" /\ last.exc = "" /\ last.status = "ok" =>
       /\ ars[2].atoms = ars[1].atoms
       /\ ars[2].exprs = ars[1].exprs
       /\ Len(ars[2].nodes) = Len(ars[1].nodes)
       /\ \A k \in 1..Len(ars[2].nodes) : ars[2].nodes[k].props = ars[1].nodes[k].props

\* An archive that held an expression has read the stream of another
\* expression, and unarchive_ex gave the one it held before
C25_Witness ==
    /\ last.op = "unarchive_ex_name" /\ last.ar = 2 /\ last.exc = ""
    /\ ~ghost.clean[2] /\ ~ghost.lacking[2]
    /\ named(2, last.key) # {}
    /\ supplies(last.sym_lst, ghost.log[2][Min(named(2, last.key))].e)
    /\ ~is_equal(heap, last.val, ghost.log[2][Min(named(2, last.key))].e)

----------------------------------------------------------------------------
(* Properties of the node table *)

\* C27: in an archive built by archive_ex calls alone every node property of
\* the node with id i holds an id below i, and every root id of the
\* expression table is the id of a node.
C27_TopologicalOrder ==
    \A i \in ArchiveIds :
        ghost.built[i] =>
            /\ \A k \in 1..Len(ars[i].nodes) :
                  \A j \in 1..Len(ars[i].nodes[k].props) :
                     ars[i].nodes[k].props[j].type = PTYPE_NODE
                        => ars[i].nodes[k].props[j].value < k - 1
            /\ \A k \in 1..Len(ars[i].exprs) : ars[i].exprs[k].root < Len(ars[i].nodes)

\* An archive built by archive_ex holds a list in a list, and a node that is
\* the child of two nodes
C27_Witness ==
    /\ ghost.built[1]
    /\ last.op = "archive_ex"
    /\ \E k \in 1..Len(ars[1].nodes) :
          \E j \in 1..Len(ars[1].nodes[k].props) :
             /\ ars[1].nodes[k].props[j].type = PTYPE_NODE
             /\ \E m \in 1..Len(ars[1].nodes[ars[1].nodes[k].props[j].value + 1].props) :
                   ars[1].nodes[ars[1].nodes[k].props[j].value + 1].props[m].type = PTYPE_NODE

----------------------------------------------------------------------------
(* Properties of the lookups *)

\* The lookups
LookupOps ==
    {"unarchive_ex", "find_bool", "find_unsigned", "find_string", "find_ex", "find_ex_node"}

\* The properties of the nodes of archive ar
node_props(ar) == [k \in 1..Len(ar.nodes) |-> ar.nodes[k].props]

\* C28: unarchive_ex by name, found or not, and find_bool, find_unsigned,
\* find_string, find_ex and find_ex_node, for a name present or absent,
\* leave the atoms, the expressions and the properties of the nodes as they
\* were, and so the bytes that are written for the archive.
C28_LookupsReadOnly ==
    last.op \in LookupOps =>
       /\ ars[1].atoms = last.before.atoms
       /\ ars[1].exprs = last.before.exprs
       /\ node_props(ars[1]) = node_props(last.before)
       /\ write_archive(ars[1]) = write_archive(last.before)

\* The string s is an atom of archive ar
is_atom(ar, s) == \E k \in 1..Len(ar.atoms) : ar.atoms[k] = s

\* C28 as the code has it: a lookup leaves the expressions and the properties
\* of the nodes as they were; it leaves the atoms and the bytes written as
\* they were when the name is an atom of the archive, and appends the name
\* to the atoms when it is not.
C28_AbsentNameAppended ==
    last.op \in LookupOps =>
       /\ ars[1].exprs = last.before.exprs
       /\ node_props(ars[1]) = node_props(last.before)
       /\ is_atom(last.before, last.key)
          => /\ ars[1].atoms = last.before.atoms
             /\ write_archive(ars[1]) = write_archive(last.before)
       /\ ~is_atom(last.before, last.key)
          => ars[1].atoms = Append(last.before.atoms, last.key)

\* find_bool with a name that no atom of the archive had, on an archive that
\* holds an expression
C28_Witness ==
    /\ last.op = "find_bool"
    /\ Len(last.before.exprs) > 0
    /\ ~is_atom(last.before, last.key)
    /\ write_archive(ars[1]) # write_archive(last.before)

----------------------------------------------------------------------------
(* Properties of the cache of the nodes *)

\* The ids of the nodes that node n has for children, in order
node_children(n) ==
    LET nodeprops == SelectSeq(n.props, LAMBDA q : q.type = PTYPE_NODE)
    IN  [i \in 1..Len(nodeprops) |-> nodeprops[i].value]

\* A node that holds an expression is not instantiated and keeps it; an
\* unarchive that returns has stored what it returns in the node.
cache_kept ==
    last.op \in {"unarchive_ex", "unarchive", "find_ex"} =>
       /\ \A k \in 1..Len(last.before) :
             last.before[k].has_expression
             => ars[1].nodes[k] = last.before[k] /\ calls(last.runs, k - 1) = 0
       /\ last.exc = ""
          => /\ ars[1].nodes[last.n + 1].has_expression
             /\ last.val = ars[1].nodes[last.n + 1].e

\* The children of the list a node holds are the expressions its child nodes
\* hold: a node that two nodes have for a child is one object in both lists.
cache_shared ==
    \A k \in 1..Len(ars[1].nodes) :
       LET n == ars[1].nodes[k]
           children == node_children(n)
       IN  n.has_expression /\ heap[n.e].kind = "lst"
           => /\ Len(heap[n.e].seq) = Len(children)
              /\ \A i \in 1..Len(children) :
                    /\ ars[1].nodes[children[i] + 1].has_expression
                    /\ heap[n.e].seq[i] = ars[1].nodes[children[i] + 1].e

\* forget() leaves no node with an expression
cache_forgotten ==
    last.op = "forget" => \A k \in 1..Len(ars[1].nodes) : ~ars[1].nodes[k].has_expression

\* C26: between two calls of forget() the instantiation function of a node
\* runs at most once; the first unarchive stores its result in the node and
\* every later unarchive, directly, through unarchive_ex or through find_ex
\* of a parent, returns that object; a node stored once is one object in the
\* result; forget() clears the expression of every node.
C26_InstantiatedOnce ==
    /\ \A k \in CacheNodes : last.total[k] <= 1
    /\ cache_kept
    /\ cache_shared
    /\ cache_forgotten

\* C26 as the code has it: between two calls of forget() the instantiation
\* function of a node returns at most once, and the node holds an expression
\* exactly when it has; a call that ends with an exception stores nothing, and
\* the function runs again at the next unarchive of the node.  The rest as
\* above.
C26_ReturnsOnce ==
    /\ \A k \in CacheNodes :
          /\ last.done[k] <= 1
          /\ k < Len(ars[1].nodes) => (last.done[k] = 1 <=> ars[1].nodes[k + 1].has_expression)
    /\ cache_kept
    /\ cache_shared
    /\ cache_forgotten

\* unarchive_ex of lst(lst(x, x), x) after the node of x was unarchived by
\* itself: the function of x did not run again, the one of the lists did, and
\* x is the one object in both lists
C26_Witness ==
    /\ last.op = "unarchive_ex"
    /\ last.exc = ""
    /\ last.before[1].has_expression
    /\ calls(last.runs, 0) = 0
    /\ calls(last.runs, 1) = 1
    /\ calls(last.runs, 2) = 1
    /\ heap[last.val].seq[2] = last.before[1].e
    /\ heap[heap[last.val].seq[1]].seq = <<last.before[1].e, last.before[1].e>>

\* The function of a list ran a second time after it had thrown
C26_RunAgain ==
    \E k \in CacheNodes : last.total[k] = 2 /\ last.done[k] = 0

----------------------------------------------------------------------------
(* Properties of the substitution in lists *)

RECURSIVE substituted(_, _, _, _)
\* What the expression of structure t stands for when the symbols of ls are
\* replaced, all at once, by the expressions of lr (in heap h)
substituted(h, t, ls, lr) ==
    LET hits == { i \in 1..Len(ls) : h[ls[i]].kind = "symbol" /\ h[ls[i]].serial = t.serial }
    IN  IF t.kind = "symbol"
        THEN (IF hits = {} THEN t ELSE structure(h, lr[Min(hits)]))
        ELSE [t EXCEPT !.seq = [i \in 1..Len(t.seq) |-> substituted(h, t.seq[i], ls, lr)]]

\* The node that subs gives for child i of the list last.e
subs_child(i) == ex_subs(last.before, last.before[last.e].seq[i], last.ls, last.lr)

\* No child of the list last.e is changed by the substitution: subs of every
\* child gives the child itself
no_child_changed ==
    \A i \in 1..Len(last.before[last.e].seq) :
       subs_child(i).val = last.before[last.e].seq[i]

\* C29: subs(ls, lr) of a list returns the list itself, and builds no node,
\* when the substitution changes no child; otherwise it returns a list of the
\* same length whose i-th child is the substitution applied to the i-th
\* child of the original, for every i.
C29_ContainerSubs ==
    last.op = "subs" =>
       /\ no_child_changed => last.val = last.e /\ heap = last.before
       /\ ~no_child_changed
          => /\ last.val > Len(last.before)
             /\ heap[last.val].kind = "lst"
             /\ Len(heap[last.val].seq) = Len(last.before[last.e].seq)
             /\ \A i \in 1..Len(last.before[last.e].seq) :
                   /\ structure(heap, heap[last.val].seq[i])
                      = structure(subs_child(i).heap, subs_child(i).val)
                   /\ structure(heap, heap[last.val].seq[i])
                      = substituted(last.before,
                                    structure(last.before, last.before[last.e].seq[i]),
                                    last.ls, last.lr)
       /\ \A n \in 1..Len(last.before) : heap[n] = last.before[n]

\* lst(lst(x, y), x, y).subs(lst(x, y), lst(lst(x, y), x)): the first child
\* is changed in its own children, the others are changed themselves
C29_Witness ==
    /\ last.op = "subs"
    /\ last.e = 5
    /\ last.ls = <<1, 2>>
    /\ last.lr = <<4, 1>>
    /\ last.val = Len(last.before) + 2
    /\ heap[last.val].seq = <<Len(last.before) + 1, 4, 1>>
    /\ heap[Len(last.before) + 1].seq = <<4, 1>>

\* lst(x, y).subs(lst(x), lst(x)), with the node of x the list holds, is the
\* list itself
C29_Unchanged ==
    /\ last.op = "subs"
    /\ last.e = 4
    /\ last.ls = <<1>>
    /\ last.lr = <<1>>
    /\ last.val = 4

----------------------------------------------------------------------------
(* Properties of lsolve *)

\* The factors a certificate takes
Lambdas == { <<0 - 2, 1>>, <<0 - 1, 1>>, <<0, 1>>, <<1, 1>>, <<2, 1>> }

\* lhs - rhs of equation r
difference(r) == poly_sub(mat.eqns[r].lhs, mat.eqns[r].rhs)

\* The monomials (places 2..6 of an expression) that hold a symbol of the list
listed(t) ==
    \E i \in 1..Len(mat.symbols) :
       IF mat.symbols[i] = 1 THEN t \in {2, 4, 5} ELSE t \in {3, 5, 6}

\* The expression e is linear in the symbols of the list: it has no product
\* of two of them
linear(e) ==
    /\ (\E i \in 1..Len(mat.symbols) : mat.symbols[i] = 1) => is_zero(e[4])
    /\ (\E i \in 1..Len(mat.symbols) : mat.symbols[i] = 2) => is_zero(e[6])
    /\ Len(mat.symbols) = 2 => is_zero(e[5])

\* The part of e without the symbols of the list
free_part(e) == [t \in 1..6 |-> IF t > 1 /\ listed(t) THEN <<0, 1>> ELSE e[t]]

\* e, linear, with the value val[i].rhs in the place of the symbol val[i].lhs
RECURSIVE with_values(_, _, _)
with_values(e, val, i) ==
    IF i > Len(val)
    THEN free_part(e)
    ELSE poly_add(poly_mul(poly_numeric(e[val[i].lhs + 1]), val[i].rhs),
                  with_values(e, val, i + 1))

\* sum of lambda[r] * e(r) over the equations r and up
RECURSIVE combination(_, _, _)
combination(lambda, e(_), r) ==
    IF r > Len(mat.eqns)
    THEN poly_zero
    ELSE poly_add(poly_mul(poly_numeric(lambda[r]), e(r)), combination(lambda, e, r + 1))

\* The system has no solution: a combination of the equations has no symbol
\* of the list left and is not 0
no_solution ==
    \E lambda \in [1..Len(mat.eqns) -> Lambdas] :
       LET whole(r) == difference(r)
           c == combination(lambda, whole, 1)
       IN  /\ \A t \in 2..6 : listed(t) => is_zero(c[t])
           /\ ~poly_is_zero(c)

\* C30: for equations linear in the listed symbols, lsolve returns one
\* relation symbol == value per listed symbol, in the order of the list, and
\* with the values in the place of the symbols lhs - rhs of every equation is
\* 0; a symbol that is left undetermined is returned equal to itself; the
\* list returned is empty when the system has no solution; logic_error is
\* raised when an equation is not linear in the symbols.
C30_LsolveSolves ==
    mat.last.op = "lsolve" =>
       LET val == mat.last.val
           is_linear == \A r \in 1..Len(mat.eqns) : linear(difference(r))
       IN  /\ mat.last.exc = "logic_error" <=> ~is_linear
           /\ is_linear => mat.last.exc = ""
           /\ mat.last.exc = "" /\ val = <<>> => no_solution
           /\ mat.last.exc = "" /\ val # <<>>
              => /\ Len(val) = Len(mat.symbols)
                 /\ \A i \in 1..Len(val) : val[i].lhs = mat.symbols[i]
                 /\ \A r \in 1..Len(mat.eqns) :
                       poly_is_zero(with_values(difference(r), val, 1))
                 /\ \A i \in 1..Len(val), j \in 1..Len(val) :
                       poly_has(val[i].rhs, mat.symbols[j])
                       => val[j].rhs = poly_symbol(mat.symbols[j])

\* Two equations in x and y, the first without x: the rows are exchanged, and
\* the values of x and y are numerics
C30_Witness ==
    /\ mat.last.op = "lsolve"
    /\ mat.symbols = <<1, 2>>
    /\ Len(mat.eqns) = 2
    /\ is_zero(difference(1)[2])
    /\ ~is_zero(difference(2)[2])
    /\ ~is_zero(difference(2)[3])
    /\ mat.last.exc = ""
    /\ Len(mat.last.val) = 2
    /\ \A i \in 1..2 : poly_is_numeric(mat.last.val[i].rhs)

\* Three equations without a solution: the empty list
C30_NoSolution ==
    /\ mat.last.op = "lsolve"
    /\ Len(mat.eqns) = 3
    /\ mat.last.exc = ""
    /\ mat.last.val = <<>>

\* An undetermined symbol: x + y == 1 solved for x and y gives y == y
C30_Undetermined ==
    /\ mat.last.op = "lsolve"
    /\ mat.last.exc = ""
    /\ Len(mat.last.val) = 2
    /\ mat.last.val[2].rhs = poly_symbol(mat.symbols[2])
    /\ poly_has(mat.last.val[1].rhs, mat.symbols[2])

\* An equation that is not linear
C30_NotLinear ==
    /\ mat.last.op = "lsolve"
    /\ mat.last.exc = "logic_error"

====
